---------------------------- MODULE Spec2Model ----------------------------
(***************************************************************************)
(* Formula engine and stage-4 scan of the options scanner backend.         *)
(*                                                                         *)
(* Expressions are modelled as sequences of tokens (identifiers, numbers,  *)
(* operators, parentheses); the regular expressions of the source that     *)
(* match whole words are modelled by token equality.  Numbers are exact    *)
(* rationals <<n, d>>; d = 0 encodes the non-finite values of JavaScript    *)
(* (<<1,0>> = Infinity, <<-1,0>> = -Infinity, <<0,0>> = NaN).               *)
(***************************************************************************)
EXTENDS Integers, Sequences, FiniteSets, TLC

(***************************************************************************)
(* Bounds of the model and constants of the program.                       *)
(***************************************************************************)
\* depth of nested evaluateFormulaRecursive calls at which the runtime
\* raises RangeError (maximum call stack size exceeded)
MaxStack == 4
\* number of candles of a series
NumCandles == 5
\* inline-expansion iterations of normalizeFormula
MaxIterations == 20
\* passes of buildDefSeries
MaxPasses == 20
\* default window length of evaluateFormulaRecursive
DefaultLength == 20
\* labels kept per study slot and study slots per scan
LabelsPerStudy == 5
NumStudies == 5

\* the values null and undefined of a label or threshold bound (no rational
\* has d < 0)
Null == <<0, -1>>
Undefined == <<0, -2>>

(***************************************************************************)
(* Exact rational arithmetic with the non-finite values of IEEE doubles.   *)
(***************************************************************************)
RECURSIVE Gcd(_, _)
Gcd(a, b) == IF b = 0 THEN a ELSE Gcd(b, a % b)

Abs(n) == IF n < 0 THEN -n ELSE n

Sign(n) == IF n < 0 THEN -1 ELSE IF n > 0 THEN 1 ELSE 0

Rat(n, d) ==
  IF d = 0 THEN <<Sign(n), 0>>
  ELSE LET g == Gcd(Abs(n), Abs(d))
           s == IF d < 0 THEN -1 ELSE 1
       IN  <<(s * n) \div g, (s * d) \div g>>

Num(n) == <<n, 1>>
Zero == <<0, 1>>
NaN == <<0, 0>>

IsFiniteV(v) == v[2] # 0

AddV(a, b) ==
  IF a[2] = 0 /\ b[2] = 0
  THEN (IF a = NaN \/ b = NaN \/ a # b THEN NaN ELSE a)
  ELSE Rat(a[1] * b[2] + b[1] * a[2], a[2] * b[2])

NegV(a) == <<-a[1], a[2]>>
SubV(a, b) == AddV(a, NegV(b))
MulV(a, b) == Rat(a[1] * b[1], a[2] * b[2])
DivV(a, b) ==
  LET s == IF b[1] < 0 THEN -1 ELSE 1
  IN  Rat(s * a[1] * b[2], s * a[2] * b[1])

LtV(a, b) ==
  IF a = NaN \/ b = NaN THEN FALSE
  ELSE IF a[2] = 0 /\ b[2] = 0 THEN a[1] < b[1]
  ELSE IF a[2] = 0 THEN a[1] < 0
  ELSE IF b[2] = 0 THEN b[1] > 0
  ELSE a[1] * b[2] < b[1] * a[2]

BoolV(b) == IF b THEN Num(1) ELSE Zero

FloorV(a) == IF a[2] = 0 THEN a ELSE Num(a[1] \div a[2])

MaxV(a, b) == IF a = NaN \/ b = NaN THEN NaN ELSE IF LtV(a, b) THEN b ELSE a
MinV(a, b) == IF a = NaN \/ b = NaN THEN NaN ELSE IF LtV(b, a) THEN b ELSE a

(***************************************************************************)
(* Tokens.                                                                 *)
(***************************************************************************)
BaseNames == {"open", "high", "low", "close", "volume", "oi", "delta",
              "gamma", "theo", "mark", "ask", "bid"}

\* String.prototype.toLowerCase on the identifiers of the model
ToLower(t) ==
  CASE t \in {"Close", "CLOSE"} -> "close"
    [] t \in {"Low", "LOW"} -> "low"
    [] t \in {"High", "HIGH"} -> "high"
    [] t \in {"Open", "OPEN"} -> "open"
    [] t \in {"Volume", "VOLUME"} -> "volume"
    [] t \in {"SimpleMovingAvg", "SIMPLEMOVINGAVG"} -> "simplemovingavg"
    [] t \in {"Average", "AVERAGE"} -> "average"
    [] t \in {"Highest", "HIGHEST"} -> "highest"
    [] t \in {"Lowest", "LOWEST"} -> "lowest"
    [] t \in {"Max", "MAX"} -> "max"
    [] t \in {"Min", "MIN"} -> "min"
    [] OTHER -> t

\* the string literal "name" as it appears in a normalized expression
Quoted(name) ==
  CASE name = "open" -> "\"open\""
    [] name = "high" -> "\"high\""
    [] name = "low" -> "\"low\""
    [] name = "close" -> "\"close\""
    [] name = "volume" -> "\"volume\""
    [] name = "oi" -> "\"oi\""
    [] name = "delta" -> "\"delta\""
    [] name = "gamma" -> "\"gamma\""
    [] name = "theo" -> "\"theo\""
    [] name = "mark" -> "\"mark\""
    [] name = "ask" -> "\"ask\""
    [] name = "bid" -> "\"bid\""

QuotedNames == {Quoted(n) : n \in BaseNames}
Unquote(q) == CHOOSE n \in BaseNames : Quoted(n) = q

Digits == {"0", "1", "2", "3", "4", "5", "6", "7", "8", "9", "10", "20"}
DigitVal(t) ==
  CASE t = "0" -> 0 [] t = "1" -> 1 [] t = "2" -> 2 [] t = "3" -> 3
    [] t = "4" -> 4 [] t = "5" -> 5 [] t = "6" -> 6 [] t = "7" -> 7
    [] t = "8" -> 8 [] t = "9" -> 9 [] t = "10" -> 10 [] t = "20" -> 20

AggMarkers == {"_sma_", "_highest_", "_lowest_"}

TempName(k) ==
  CASE k = 0 -> "__temp0__" [] k = 1 -> "__temp1__" [] k = 2 -> "__temp2__"
    [] k = 3 -> "__temp3__" [] OTHER -> "__temp4__"

\* the concatenation of pieces[lo..hi], by halves
RECURSIVE FlattenRange(_, _, _)
FlattenRange(pieces, lo, hi) ==
  IF lo > hi THEN <<>>
  ELSE IF lo = hi THEN pieces[lo]
  ELSE LET mid == (lo + hi) \div 2
       IN  FlattenRange(pieces, lo, mid) \o FlattenRange(pieces, mid + 1, hi)

\* the position of the first occurrence of the token sequence pat in s,
\* 0 when there is none (String.prototype.indexOf)
IndexOf(s, pat) ==
  LET hits == {p \in 1..(Len(s) - Len(pat) + 1) :
                 SubSeq(s, p, p + Len(pat) - 1) = pat}
  IN  IF hits = {} THEN 0 ELSE CHOOSE p \in hits : \A q \in hits : p <= q

\* String.prototype.replace(pattern: string, replacement): first occurrence
ReplaceFirst(s, pat, rep) ==
  LET p == IndexOf(s, pat)
  IN  IF p = 0 THEN s
      ELSE SubSeq(s, 1, p - 1) \o rep \o SubSeq(s, p + Len(pat), Len(s))

\* String.prototype.replace(/\bname\b/g, rep): every whole-word occurrence
ReplaceWord(s, name, rep) ==
  FlattenRange([i \in 1..Len(s) |-> IF s[i] = name THEN rep ELSE <<s[i]>>],
               1, Len(s))

HasWord(s, name) == \E i \in 1..Len(s) : s[i] = name


(***************************************************************************)
(* normalizeFormula: a raw expression to the text handed to the            *)
(* expression evaluator.  defs is the def map in key order, a sequence of  *)
(* <<name, expression>> pairs.                                             *)
(***************************************************************************)
\* s.replace(/SimpleMovingAvg\s*\(/gi, '_sma_(') and the other aliases
AliasOf(t) ==
  LET l == ToLower(t)
  IN  CASE l \in {"simplemovingavg", "average"} -> "_sma_"
        [] l = "highest" -> "_highest_"
        [] l = "lowest" -> "_lowest_"
        [] l = "max" -> "max"
        [] l = "min" -> "min"
        [] OTHER -> t

RenameAliases(s) ==
  [i \in 1..Len(s) |->
     IF i < Len(s) /\ s[i + 1] = "(" THEN AliasOf(s[i]) ELSE s[i]]

\* SERIES[N] -> _off_("series", N), fixed base-series names only
IsOffsetAt(s, i) ==
  /\ i >= 1 /\ i + 3 <= Len(s)
  /\ ToLower(s[i]) \in BaseNames
  /\ s[i + 1] = "["
  /\ s[i + 2] \in Digits
  /\ s[i + 3] = "]"

RewriteOffsets(s) ==
  FlattenRange(
    [i \in 1..Len(s) |->
       IF IsOffsetAt(s, i)
       THEN <<"_off_", "(", Quoted(ToLower(s[i])), ",", s[i + 2], ")">>
       ELSE IF \E j \in {i - 1, i - 2, i - 3} : IsOffsetAt(s, j) THEN <<>>
       ELSE <<s[i]>>],
    1, Len(s))

\* one forEach over Object.keys(allDefs), from the k-th key on
RECURSIVE InlinePass(_, _, _)
InlinePass(s, defs, k) ==
  IF k > Len(defs) THEN s
  ELSE InlinePass(
         IF HasWord(s, defs[k][1])
         THEN ReplaceWord(s, defs[k][1], <<"(">> \o defs[k][2] \o <<")">>)
         ELSE s,
         defs, k + 1)

\* while (changed && maxIterations-- > 0)
RECURSIVE InlineLoop(_, _, _)
InlineLoop(s, defs, n) ==
  IF n = 0 THEN s
  ELSE CHOOSE out \in {IF r = s THEN s ELSE InlineLoop(r, defs, n - 1) :
                         r \in {InlinePass(s, defs, 1)}} : TRUE

InlineDefs(s, defs) == InlineLoop(s, defs, MaxIterations)

\* s.replace(/\bLow\b/g, 'low') and the four other capitalised names
NormalizeCase(s) ==
  [i \in 1..Len(s) |->
     IF s[i] \in {"Low", "High", "Open", "Close", "Volume"}
     THEN ToLower(s[i]) ELSE s[i]]

normalizeFormula(raw, allDefs) ==
  NormalizeCase(InlineDefs(RewriteOffsets(RenameAliases(raw)), allDefs))

(***************************************************************************)
(* Loops over the tokens of a text are run as state machines: a loop is a  *)
(* step operator on a record and RunScan applies it n times.               *)
(***************************************************************************)
\* parseArguments: st = [s, i, depth, current, args]
ArgsStep(st) ==
  IF st.i > Len(st.s) THEN st
  ELSE LET c == st.s[st.i]
       IN  IF c \in {"(", "["}
           THEN [st EXCEPT !.i = @ + 1, !.depth = @ + 1,
                           !.current = Append(@, c)]
           ELSE IF c \in {")", "]"}
           THEN [st EXCEPT !.i = @ + 1, !.depth = @ - 1,
                           !.current = Append(@, c)]
           ELSE IF c = "," /\ st.depth = 0
           THEN [st EXCEPT !.i = @ + 1, !.current = <<>>,
                           !.args = Append(@, st.current)]
           ELSE [st EXCEPT !.i = @ + 1, !.current = Append(@, c)]

\* the scan of findAggregationCalls for the closing parenthesis:
\* st = [s, p, depth]
ParenStep(st) ==
  IF st.depth = 0 \/ st.p > Len(st.s) THEN st
  ELSE IF st.s[st.p] = "(" THEN [st EXCEPT !.p = @ + 1, !.depth = @ + 1]
  ELSE IF st.s[st.p] = ")" THEN [st EXCEPT !.p = @ + 1, !.depth = @ - 1]
  ELSE [st EXCEPT !.p = @ + 1]

(***************************************************************************)
(* The expression library (mathjs): parse and evaluate in a scope, for the *)
(* arithmetic subset + - * / comparisons, unary minus, parentheses,        *)
(* symbols, string literals and function calls.  The text is read token by *)
(* token with a value stack and an operator stack; the result is [ok, v],  *)
(* ok = FALSE when parsing or evaluating throws (syntax error, undefined   *)
(* symbol, undefined function).  The scope is [vars, fns, off]: vars maps  *)
(* the bound symbols to their values, fns is the set of bound function     *)
(* names, off[name][k] is _off_(name, k).                                  *)
(***************************************************************************)
RelOps == {"<", ">", "<=", ">=", "==", "!="}
AddOps == {"+", "-"}
MulOps == {"*", "/"}
Punctuation == {"(", ")", ",", "[", "]", ";", "=", "&&", "||", "."}

IsIdent(t) ==
  t \notin Digits \cup QuotedNames \cup RelOps \cup AddOps \cup MulOps
           \cup Punctuation

EvalFail == [ok |-> FALSE, v |-> NaN]
Val(v) == [ok |-> TRUE, v |-> v]

BinOp(op, a, b) ==
  CASE op = "+" -> AddV(a, b)
    [] op = "-" -> SubV(a, b)
    [] op = "*" -> MulV(a, b)
    [] op = "/" -> DivV(a, b)
    [] op = "<" -> BoolV(LtV(a, b))
    [] op = ">" -> BoolV(LtV(b, a))
    [] op = "<=" -> BoolV(a # NaN /\ b # NaN /\ ~LtV(b, a))
    [] op = ">=" -> BoolV(a # NaN /\ b # NaN /\ ~LtV(a, b))
    [] op = "==" -> BoolV(a # NaN /\ a = b)
    [] op = "!=" -> BoolV(a = NaN \/ a # b)

ScopeFn(scope, f, args) ==
  IF f \notin scope.fns THEN EvalFail
  ELSE IF f = "_off_"
       THEN (IF Len(args) = 2 THEN Val(scope.off[args[1]][args[2][1]])
             ELSE Val(Zero))
  ELSE IF f = "off" /\ Len(args) = 2
       THEN Val(scope.off[args[1]][args[2][1]])
  ELSE IF f = "sma" /\ Len(args) = 2
       THEN Val(scope.sma[args[1]][args[2][1]])
  ELSE IF f = "abs" /\ Len(args) = 1
       THEN Val(IF LtV(args[1], Zero) THEN NegV(args[1]) ELSE args[1])
  ELSE IF f = "max" /\ Len(args) = 2 THEN Val(MaxV(args[1], args[2]))
  ELSE IF f = "min" /\ Len(args) = 2 THEN Val(MinV(args[1], args[2]))
  ELSE IF f = "floor" /\ Len(args) = 1 THEN Val(FloorV(args[1]))
  ELSE IF f = "ceil" /\ Len(args) = 1
       THEN Val(NegV(FloorV(NegV(args[1]))))
  ELSE EvalFail

Prec(op) ==
  IF op.k = "neg" THEN 4
  ELSE IF op.name \in MulOps THEN 3
  ELSE IF op.name \in AddOps THEN 2
  ELSE 1

Pop(q) == SubSeq(q, 1, Len(q) - 1)
Top(q) == q[Len(q)]

\* apply the operator on top of the operator stack
ApplyTop(st) ==
  LET op == Top(st.ops)
      n == Len(st.vals)
  IN  IF op.k = "neg"
      THEN [st EXCEPT !.ops = Pop(@),
                      !.vals = Append(Pop(@), NegV(st.vals[n]))]
      ELSE [st EXCEPT !.ops = Pop(@),
                      !.vals = Append(SubSeq(@, 1, n - 2),
                                 BinOp(op.name, st.vals[n - 1], st.vals[n]))]

\* apply the pending operators that bind at least as tightly as minPrec
RECURSIVE ReduceWhile(_, _)
ReduceWhile(st, minPrec) ==
  IF st.ops # <<>> /\ Top(st.ops).k \in {"bin", "neg"}
     /\ Prec(Top(st.ops)) >= minPrec
  THEN ReduceWhile(ApplyTop(st), minPrec)
  ELSE st

\* a closing parenthesis: of a group, or of a call, which is then applied
CloseParen(st0) ==
  CHOOSE out \in
    {IF st.ops = <<>> THEN [st EXCEPT !.ok = FALSE]
     ELSE IF Top(st.ops).k = "paren"
     THEN [st EXCEPT !.ops = Pop(@), !.pos = @ + 1]
     ELSE CHOOSE applied \in
            {IF r.ok
             THEN [st EXCEPT !.ops = Pop(@), !.pos = @ + 1,
                     !.vals = Append(SubSeq(@, 1, Top(st.ops).base), r.v)]
             ELSE [st EXCEPT !.ok = FALSE] :
               r \in {ScopeFn(st.scope, Top(st.ops).name,
                         SubSeq(st.vals, Top(st.ops).base + 1,
                                Len(st.vals)))}} : TRUE :
       st \in {ReduceWhile(st0, 0)}} : TRUE

\* one token: st = [t, scope, pos, vals, ops, expectOperand, ok]
EvalStep(st) ==
  IF ~st.ok \/ st.pos > Len(st.t) THEN st
  ELSE
    LET c == st.t[st.pos]
    IN  IF c = ")" /\ (st.expectOperand =>
                         /\ st.ops # <<>> /\ Top(st.ops).k = "fn"
                         /\ Top(st.ops).base = Len(st.vals)
                         /\ st.t[st.pos - 1] = "(")
        THEN [CloseParen(st) EXCEPT !.expectOperand = FALSE]
        ELSE IF st.expectOperand
        THEN (IF c \in Digits
              THEN [st EXCEPT !.pos = @ + 1, !.expectOperand = FALSE,
                              !.vals = Append(@, Num(DigitVal(c)))]
              ELSE IF c \in QuotedNames
              THEN [st EXCEPT !.pos = @ + 1, !.expectOperand = FALSE,
                              !.vals = Append(@, Unquote(c))]
              ELSE IF c = "("
              THEN [st EXCEPT !.pos = @ + 1,
                     !.ops = Append(@, [k |-> "paren", name |-> c, base |-> 0])]
              ELSE IF c = "-"
              THEN [st EXCEPT !.pos = @ + 1,
                     !.ops = Append(@, [k |-> "neg", name |-> c, base |-> 0])]
              ELSE IF IsIdent(c)
              THEN (IF st.pos < Len(st.t) /\ st.t[st.pos + 1] = "("
                    THEN [st EXCEPT !.pos = @ + 2,
                           !.ops = Append(@, [k |-> "fn", name |-> c,
                                              base |-> Len(st.vals)])]
                    ELSE IF c \in DOMAIN st.scope.vars
                    THEN [st EXCEPT !.pos = @ + 1, !.expectOperand = FALSE,
                                    !.vals = Append(@, st.scope.vars[c])]
                    ELSE [st EXCEPT !.ok = FALSE])
              ELSE [st EXCEPT !.ok = FALSE])
        ELSE (IF c \in RelOps \cup AddOps \cup MulOps \cup {","}
              THEN CHOOSE out \in
                     {IF c # ","
                      THEN [r EXCEPT !.pos = @ + 1, !.expectOperand = TRUE,
                              !.ops = Append(@, [k |-> "bin", name |-> c,
                                                 base |-> 0])]
                      ELSE IF r.ops # <<>> /\ Top(r.ops).k = "fn"
                      THEN [r EXCEPT !.pos = @ + 1, !.expectOperand = TRUE]
                      ELSE [r EXCEPT !.ok = FALSE] :
                        r \in {ReduceWhile(st,
                                 IF c = "," THEN 0
                                 ELSE Prec([k |-> "bin", name |-> c,
                                            base |-> 0]))}} : TRUE
              ELSE [st EXCEPT !.ok = FALSE])

\* the position of the first ";" at or after position p, 0 when none
NextSemicolon(t, p) ==
  LET hits == {q \in p..Len(t) : t[q] = ";"}
  IN  IF hits = {} THEN 0 ELSE CHOOSE q \in hits : \A r \in hits : q <= r

IsWord(c) == (IsIdent(c) /\ c # " ") \/ c \in Digits

\* String.prototype.trim on a captured text: the token " " stands for
\* white space between "=" and the text that follows it
TrimBlanks(s) ==
  LET keep == {i \in 1..Len(s) : s[i] # " "}
  IN  IF keep = {} THEN <<>>
      ELSE SubSeq(s, CHOOSE i \in keep : \A j \in keep : i <= j,
                     CHOOSE i \in keep : \A j \in keep : j <= i)

\* /keyword\s+([A-Za-z0-9_]+)\s*=\s*([^;]+);/gi matches at position p
DeclAt(t, p, keyword) ==
  /\ p + 4 <= Len(t)
  /\ ToLower(t[p]) = keyword
  /\ IsWord(t[p + 1])
  /\ t[p + 2] = "="
  /\ t[p + 3] # ";"
  /\ NextSemicolon(t, p + 3) # 0

\* regex.exec in a loop: st = [t, p, keyword, found]; found collects the
\* <<name, value>> pairs in order of appearance
DeclStep(st) ==
  IF st.p > Len(st.t) THEN st
  ELSE IF DeclAt(st.t, st.p, st.keyword)
  THEN LET q == NextSemicolon(st.t, st.p + 3)
       IN  [st EXCEPT !.p = q + 1,
              !.found = Append(@, <<st.t[st.p + 1],
                                    TrimBlanks(SubSeq(st.t, st.p + 3,
                                                      q - 1))>>)]
  ELSE [st EXCEPT !.p = @ + 1]

ScanStep(st) ==
  CASE st.kind = "args" -> ArgsStep(st)
    [] st.kind = "paren" -> ParenStep(st)
    [] st.kind = "eval" -> EvalStep(st)
    [] st.kind = "decl" -> DeclStep(st)

\* n steps of a loop, by halves
RECURSIVE RunScan(_, _)
RunScan(st, n) ==
  IF n <= 0 THEN st
  ELSE IF n = 1 THEN ScanStep(st)
  ELSE CHOOSE r \in {RunScan(mid, n - n \div 2) :
                       mid \in {RunScan(st, n \div 2)}} : TRUE

\* math.parse(t).evaluate(scope); the empty text is the constant undefined
MathEval(t, scope) ==
  IF t = <<>> THEN Val(NaN)
  ELSE
    CHOOSE out \in
      {CHOOSE res \in
         {IF fin.ok /\ ~fin.expectOperand /\ red.ops = <<>>
             /\ Len(red.vals) = 1
          THEN Val(red.vals[1])
          ELSE EvalFail :
            red \in {IF fin.ok /\ ~fin.expectOperand
                     THEN ReduceWhile(fin, 0) ELSE fin}} : TRUE :
         fin \in {RunScan([kind |-> "eval", t |-> t, scope |-> scope,
                           pos |-> 1, vals |-> <<>>, ops |-> <<>>,
                           expectOperand |-> TRUE, ok |-> TRUE], Len(t))}} :
      TRUE

(***************************************************************************)
(* parseArguments and findAggregationCalls.                                *)
(***************************************************************************)
\* the arguments of a call, split at the commas outside any bracket
parseArguments(argsStr) ==
  CHOOSE out \in
    {IF fin.current = <<>> THEN fin.args ELSE Append(fin.args, fin.current) :
       fin \in {RunScan([kind |-> "args", s |-> argsStr, i |-> 1,
                         depth |-> 0, current |-> <<>>, args |-> <<>>],
                        Len(argsStr))}} : TRUE

\* the position just after the parenthesis that closes the one opened just
\* before position p, 0 when the text ends first
MatchParen(s, p) ==
  CHOOSE out \in
    {IF fin.depth = 0 THEN fin.p ELSE 0 :
       fin \in {RunScan([kind |-> "paren", s |-> s, p |-> p, depth |-> 1],
                        Len(s))}} : TRUE

\* the call sites in order of appearance
\* ends[p] is the end of the call that starts at p, 0 when none does
findAggregationCalls(expr) ==
  CHOOSE out \in
    {CHOOSE calls \in
       {[k \in 1..Cardinality(sites) |->
           CHOOSE call \in
             {[funcName |-> expr[p], startPos |-> p, endPos |-> ends[p],
               fullCall |-> SubSeq(expr, p, ends[p] - 1),
               argsStr |-> SubSeq(expr, p + 2, ends[p] - 2)] :
                p \in {q \in sites :
                         Cardinality({r \in sites : r < q}) = k - 1}} :
             TRUE] \o <<>> :
          sites \in {{p \in 1..(Len(expr) - 1) : ends[p] # 0}}} : TRUE :
       ends \in {[p \in 1..(Len(expr) - 1) |->
                    IF expr[p] \in AggMarkers /\ expr[p + 1] = "("
                    THEN MatchParen(expr, p + 2) ELSE 0] \o <<>>}} : TRUE

Reverse(q) == [i \in 1..Len(q) |-> q[Len(q) + 1 - i]]

\* aggCalls.sort((a, b) => b.startPos - a.startPos); startPos is increasing
\* in the list findAggregationCalls returns
SortByStartDesc(calls) == Reverse(calls)

(***************************************************************************)
(* Series and evaluation contexts.  A candle is a record [close, low]; the *)
(* other base fields are absent from it and read as 0.                     *)
(***************************************************************************)
CandleFields == {"close", "low"}

\* candles.map(c => Number(c.name) || 0)
buildSeries(candles) ==
  [name \in BaseNames |->
     [i \in 1..Len(candles) |->
        IF name \in CandleFields THEN Num(candles[i][name]) ELSE Zero]]

\* getAt answering a position before the series with its first value
getAtClamped(arr, idx) ==
  IF arr = <<>> \/ idx > Len(arr) THEN Zero
  ELSE IF idx < 1 THEN arr[1]
  ELSE IF IsFiniteV(arr[idx]) THEN arr[idx] ELSE Zero

\* positions are 1-based here: arr[idx] of the source is arr[idx + 1]
getAt(arr, idx) ==
  IF idx < 1 \/ idx > Len(arr) THEN Zero
  ELSE IF IsFiniteV(arr[idx]) THEN arr[idx] ELSE Zero

ScopeFns == {"_off_", "abs", "min", "max", "floor", "ceil"}

\* the scope of candle i: base series, offset accessor, math functions and
\* the value at i of every def series (defSeries: def name -> series)
createBasicContext(candles, i, defSeries) ==
  CHOOSE ctx \in
    {[vars |-> [name \in BaseNames \cup DOMAIN defSeries |->
                  IF name \in DOMAIN defSeries
                  THEN getAt(defSeries[name], i)
                  ELSE getAt(series[name], i)],
      fns  |-> ScopeFns,
      off  |-> [name \in BaseNames |->
                  [k \in 0..20 |-> getAt(series[name], i - k)]]] :
       series \in {buildSeries(candles)}} : TRUE

ZeroSeries(candles) == [i \in 1..Len(candles) |-> Zero]

\* Number(result), isFinite(num) ? num : 0
CoerceFinite(v) == IF IsFiniteV(v) THEN v ELSE Zero

\* the values of an expression at every candle, or ok = FALSE when parsing
\* it or evaluating it at some candle throws; scopes[i] is the scope of
\* candle i
EvalAllCandles(expr, candles, scopes) ==
  CHOOSE out \in
    {IF \A i \in 1..Len(candles) : r[i].ok
     THEN [ok |-> TRUE,
           vals |-> [i \in 1..Len(candles) |-> CoerceFinite(r[i].v)]]
     ELSE [ok |-> FALSE, vals |-> ZeroSeries(candles)] :
       r \in {[i \in 1..Len(candles) |-> MathEval(expr, scopes[i])]
                \o <<>>}} : TRUE

\* [vals, log]: a parse or evaluation error is caught, logged and answered
\* with a zero series
evaluateSimpleExpression(expr, candles, defSeries) ==
  CHOOSE out \in
    {[vals |-> r.vals,
      log  |-> IF r.ok THEN <<>> ELSE <<"simpleExprError">>] :
       r \in {EvalAllCandles(expr, candles,
                 [i \in 1..Len(candles) |->
                    createBasicContext(candles, i, defSeries)] \o <<>>)}} :
    TRUE

RECURSIVE SumWindow(_, _, _)
SumWindow(series, lo, hi) ==
  IF lo > hi THEN Zero ELSE AddV(series[hi], SumWindow(series, lo, hi - 1))

RECURSIVE MaxWindow(_, _, _)
MaxWindow(series, lo, hi) ==
  IF lo = hi THEN series[hi]
  ELSE MaxV(series[hi], MaxWindow(series, lo, hi - 1))

RECURSIVE MinWindow(_, _, _)
MinWindow(series, lo, hi) ==
  IF lo = hi THEN series[hi]
  ELSE MinV(series[hi], MinWindow(series, lo, hi - 1))

\* WindowStart of a window that reaches one bar further back
WindowStartWide(i, len) == IF i - len < 1 THEN 1 ELSE i - len

\* the first position of the window of len bars ending at i that lies
\* inside the input series
WindowStart(i, len) == IF i - len + 1 < 1 THEN 1 ELSE i - len + 1

\* applyAggregation with the bars before the series counted as zeros
applyAggregationZeroFilled(funcName, inputSeries, length, candles) ==
  LET len == MaxV(Num(1), FloorV(length))
  IN  [i \in 1..Len(candles) |->
         IF len = NaN \/ i > Len(inputSeries) THEN Zero
         ELSE LET lo == WindowStart(i, len[1])
              IN  CASE funcName = "_sma_" ->
                         DivV(SumWindow(inputSeries, lo, i), Num(len[1]))
                    [] funcName = "_highest_" ->
                         IF i - lo + 1 < len[1]
                         THEN MaxV(Zero, MaxWindow(inputSeries, lo, i))
                         ELSE MaxWindow(inputSeries, lo, i)
                    [] funcName = "_lowest_" ->
                         IF i - lo + 1 < len[1]
                         THEN MinV(Zero, MinWindow(inputSeries, lo, i))
                         ELSE MinWindow(inputSeries, lo, i)
                    [] OTHER -> Zero]

\* length is a finite value or NaN (a NaN length leaves every window empty)
applyAggregation(funcName, inputSeries, length, candles) ==
  LET len == MaxV(Num(1), FloorV(length))
  IN  [i \in 1..Len(candles) |->
         IF len = NaN \/ i > Len(inputSeries) THEN Zero
         ELSE LET lo == WindowStart(i, len[1])
              IN  CASE funcName = "_sma_" ->
                         DivV(SumWindow(inputSeries, lo, i), Num(i - lo + 1))
                    [] funcName = "_highest_" -> MaxWindow(inputSeries, lo, i)
                    [] funcName = "_lowest_" -> MinWindow(inputSeries, lo, i)
                    [] OTHER -> Zero]

(***************************************************************************)
(* evaluateFormulaRecursive.  The result is [threw, vals, cache, log]:     *)
(* threw is TRUE when an exception leaves the call (the runtime's          *)
(* RangeError when the recursion exceeds the call stack); cache is the Map *)
(* after the call, log the console.error / console.warn entries written.   *)
(***************************************************************************)
EmptyCache == <<>>

CachePut(cache, expr, vals) == (expr :> vals) @@ cache

\* the scope math.evaluate(lengthExpr, lengthCtx) runs in
LengthScope ==
  [vars |-> <<>>, fns |-> {"abs", "min", "max"},
   off |-> [name \in BaseNames |-> [k \in 0..20 |-> Zero]]]

\* [v, log]: the window length of a call, 20 when the text does not evaluate
EvalLength(lengthExpr) ==
  CHOOSE out \in
    {IF r.ok THEN [v |-> r.v, log |-> <<>>]
     ELSE [v |-> Num(DefaultLength), log |-> <<"lengthError">>] :
       r \in {MathEval(lengthExpr, LengthScope)}} : TRUE

\* the scope of candle i extended with the temp series (<<name, series>>)
TempScope(candles, i, defSeries, temps) ==
  LET names == {temps[k][1] : k \in 1..Len(temps)}
      SeriesOfTemp(n) ==
        temps[CHOOSE k \in 1..Len(temps) :
                temps[k][1] = n /\ \A j \in k + 1..Len(temps) : temps[j][1] # n][2]
  IN  CHOOSE out \in
        {[ctx EXCEPT !.vars =
            [n \in DOMAIN ctx.vars \cup names |->
               IF n \in names THEN SeriesOfTemp(n)[i] ELSE ctx.vars[n]]] :
           ctx \in {createBasicContext(candles, i, defSeries)}} : TRUE

RECURSIVE evaluateFormulaRecursive(_, _, _, _, _, _), ProcessCalls(_, _, _, _, _, _, _)

\* the loop over the sorted call sites from the k-th on; st is
\* [workingExpr, temps, cache, log, threw]
ProcessCalls(calls, k, st, candles, allDefs, defSeries, depth) ==
  IF k > Len(calls) \/ st.threw THEN st
  ELSE
    CHOOSE out \in
      {IF Len(args) < 2
       THEN ProcessCalls(calls, k + 1,
              [st EXCEPT !.log = Append(@, "aggArgsError")],
              candles, allDefs, defSeries, depth)
       ELSE
         CHOOSE res \in
           {IF input.threw
            THEN [st EXCEPT !.threw = TRUE,
                            !.log = st.log \o length.log \o input.log]
            ELSE
              CHOOSE nxt \in
                {ProcessCalls(calls, k + 1,
                   [workingExpr |-> ReplaceFirst(st.workingExpr,
                                      calls[k].fullCall,
                                      <<TempName(Len(st.temps))>>),
                    temps |-> Append(st.temps,
                                <<TempName(Len(st.temps)), resultSeries>>),
                    cache |-> input.cache,
                    log |-> st.log \o length.log \o input.log,
                    threw |-> FALSE],
                   candles, allDefs, defSeries, depth) :
                   resultSeries \in
                     {applyAggregation(calls[k].funcName, input.vals,
                                       length.v, candles) \o <<>>}} : TRUE :
              length \in {EvalLength(args[2])},
              input \in {evaluateFormulaRecursive(args[1], candles, allDefs,
                           defSeries, st.cache, depth + 1)}} : TRUE :
         args \in {parseArguments(calls[k].argsStr)}} : TRUE

evaluateFormulaRecursive(expr, candles, allDefs, defSeries, cache, depth) ==
  IF depth > MaxStack
  THEN [threw |-> TRUE, vals |-> <<>>, cache |-> cache, log |-> <<>>]
  ELSE IF expr \in DOMAIN cache
  THEN [threw |-> FALSE, vals |-> cache[expr], cache |-> cache, log |-> <<>>]
  ELSE
    CHOOSE out \in
      {CHOOSE res \in
         {IF aggCalls = <<>>
          THEN CHOOSE simple \in
                 {[threw |-> FALSE, vals |-> r.vals,
                   cache |-> CachePut(cache, expr, r.vals), log |-> r.log] :
                    r \in {evaluateSimpleExpression(normalized, candles,
                                                    defSeries)}} : TRUE
          ELSE
            CHOOSE withTemps \in
              {IF st.threw
               THEN [threw |-> TRUE, vals |-> <<>>, cache |-> st.cache,
                     log |-> st.log]
               ELSE
                 CHOOSE final \in
                   {IF r.ok
                    THEN [threw |-> FALSE, vals |-> r.vals,
                          cache |-> CachePut(st.cache, expr, r.vals),
                          log |-> st.log]
                    ELSE [threw |-> FALSE, vals |-> r.vals,
                          cache |-> st.cache,
                          log |-> Append(st.log, "tempsExprError")] :
                      r \in {EvalAllCandles(st.workingExpr, candles,
                               [i \in 1..Len(candles) |->
                                  TempScope(candles, i, defSeries, st.temps)]
                               \o <<>>)}} : TRUE :
                 st \in {ProcessCalls(SortByStartDesc(aggCalls), 1,
                           [workingExpr |-> normalized, temps |-> <<>>,
                            cache |-> cache, log |-> <<>>, threw |-> FALSE],
                           candles, allDefs, defSeries, depth)}} : TRUE :
            aggCalls \in {findAggregationCalls(normalized)}} : TRUE :
         normalized \in {normalizeFormula(expr, allDefs)}} : TRUE

(***************************************************************************)
(* buildDefSeries and evaluateFormulasOnCandles.                           *)
(***************************************************************************)
\* InitialCache with one Map kept between the calls
InitialCacheShared(left) == left

\* the cache a top-level call of evaluateFormulaRecursive starts with: the
\* default parameter new Map(), whatever Map an earlier call left behind
InitialCache(left) == EmptyCache

\* the entries written to the console (error and warn) by one evaluation,
\* marked with the names of the defs they are about
Tagged(log, about) ==
  [i \in 1..Len(log) |-> [tag |-> log[i], about |-> about]]

\* Dependencies of a loop that evaluates every def where it stands in the
\* key order
DependenciesIgnored(defs, k, evaluated) == {}

\* the defs other than the k-th that are not evaluated yet and whose name
\* occurs as a whole word in the k-th def's expression
Dependencies(defs, k, evaluated) ==
  {j \in 1..Len(defs) :
     /\ defs[j][1] # defs[k][1]
     /\ defs[j][1] \notin evaluated
     /\ HasWord(defs[k][2], defs[j][1])}

\* one iteration of the inner loop of buildDefSeries, for the k-th def;
\* st = [evaluated, defSeries, progress, log, cache]
DefIteration(st, candles, defs, k) ==
  IF defs[k][1] \in st.evaluated \/ Dependencies(defs, k, st.evaluated) # {}
  THEN st
  ELSE CHOOSE out \in
         {IF r.threw
          THEN [st EXCEPT
                 !.log = @ \o Tagged(r.log \o <<"defError">>, {defs[k][1]}),
                 !.cache = r.cache]
          ELSE [evaluated |-> st.evaluated \cup {defs[k][1]},
                defSeries |-> (defs[k][1] :> r.vals) @@ st.defSeries,
                progress |-> TRUE,
                log |-> st.log \o Tagged(r.log, {defs[k][1]}),
                cache |-> r.cache] :
            r \in {evaluateFormulaRecursive(defs[k][2], candles, defs,
                     st.defSeries, InitialCache(st.cache), 1)}} : TRUE

\* for (const defName of defNames), from the k-th def on
RECURSIVE DefPass(_, _, _, _)
DefPass(st, candles, defs, k) ==
  IF k > Len(defs) THEN st
  ELSE CHOOSE out \in {DefPass(nxt, candles, defs, k + 1) :
                         nxt \in {DefIteration(st, candles, defs, k)}} : TRUE

\* PassLoopEnds of a loop that repeats until a pass makes progress
PassLoopEndsOnProgress(pass, progress) == progress

\* the pass loop leaves after a pass without progress or after the last pass
PassLoopEnds(pass, progress) == ~progress \/ pass + 1 >= MaxPasses

RECURSIVE DefPasses(_, _, _, _)
DefPasses(st, candles, defs, pass) ==
  CHOOSE out \in
    {IF PassLoopEnds(pass, nxt.progress) THEN nxt
     ELSE DefPasses(nxt, candles, defs, pass + 1) :
       nxt \in {DefPass([st EXCEPT !.progress = FALSE], candles, defs, 1)}} :
    TRUE

Unevaluated(defs, evaluated) ==
  {j \in 1..Len(defs) : defs[j][1] \notin evaluated}

\* console.warn for the defs the passes left unevaluated
WarnUnevaluated(st, defs) ==
  IF Unevaluated(defs, st.evaluated) # {}
  THEN [st EXCEPT !.log =
          Append(@, [tag |-> "unevaluatedWarn",
                     about |-> {defs[j][1] :
                                  j \in Unevaluated(defs, st.evaluated)}])]
  ELSE st

NoDefs(cache) ==
  [evaluated |-> {}, defSeries |-> <<>>, progress |-> FALSE, log |-> <<>>,
   cache |-> cache]

\* [evaluated, defSeries, progress, log, cache]
buildDefSeries(candles, defs) ==
  IF defs = <<>> THEN NoDefs(EmptyCache)
  ELSE WarnUnevaluated(DefPasses(NoDefs(EmptyCache), candles, defs, 0), defs)

\* Number(resultSeries[resultSeries.length - 1]): NaN for an empty series
LastValue(vals) == IF vals = <<>> THEN NaN ELSE vals[Len(vals)]

\* the label of one formula: [label, log, cache]; an exception is caught
\* and answered with null
FormulaLabel(formula, candles, defs, defSeries, left) ==
  CHOOSE out \in
    {IF r.threw
     THEN [label |-> Null, log |-> Tagged(r.log \o <<"formulaError">>, {}),
           cache |-> r.cache]
     ELSE IF IsFiniteV(LastValue(r.vals))
     THEN [label |-> LastValue(r.vals), log |-> Tagged(r.log, {}),
           cache |-> r.cache]
     ELSE [label |-> Null, log |-> Tagged(r.log \o <<"nonFiniteWarn">>, {}),
           cache |-> r.cache] :
       r \in {evaluateFormulaRecursive(formula, candles, defs, defSeries,
                InitialCache(left), 1)}} : TRUE

\* NoCandles that lets every candle list through
NoCandlesNever(candles) == FALSE

\* !candles || candles.length === 0; a missing candle list (null,
\* undefined) is read as the empty list
NoCandles(candles) == candles = <<>>

\* [labels, log]
evaluateFormulasOnCandles(candles, formulas, defs) ==
  IF NoCandles(candles)
  THEN [labels |-> [j \in 1..Len(formulas) |-> Null],
        log |-> Tagged(<<"noCandlesWarn">>, {})]
  ELSE CHOOSE out \in
         {CHOOSE res \in
            {[labels |-> [j \in 1..Len(formulas) |-> each[j].label],
              log |-> built.log
                      \o FlattenRange(
                           [j \in 1..Len(formulas) |-> each[j].log],
                           1, Len(formulas))] :
               each \in {[j \in 1..Len(formulas) |->
                            FormulaLabel(formulas[j], candles, defs,
                                         built.defSeries, EmptyCache)]
                         \o <<>>}} : TRUE :
            built \in {buildDefSeries(candles, defs)}} : TRUE

(***************************************************************************)
(* extractPlotExpressions: a script to [plots, defs, inputs].  plots is    *)
(* the list of <<name, exprRaw>>, defs and inputs are maps in key order.   *)
(* userInputs is a function from the overridden input names to their       *)
(* values.                                                                 *)
(***************************************************************************)
\* script.replace(/\band\b/gi, ' && ') and .replace(/\bor\b/gi, ' || ')
BooleanOperators(script) ==
  [i \in 1..Len(script) |->
     IF script[i] \in {"and", "And", "AND"} THEN "&&"
     ELSE IF script[i] \in {"or", "Or", "OR"} THEN "||"
     ELSE script[i]]

Declarations(script, keyword) ==
  RunScan([kind |-> "decl", t |-> script, p |-> 1, keyword |-> keyword,
           found |-> <<>>], Len(script)).found

\* obj[name] = value for every pair in turn: the last value of a name, at
\* the position of its first assignment
AsMap(pairs) ==
  LET IsFirst(i) == \A j \in 1..(i - 1) : pairs[j][1] # pairs[i][1]
      LastOf(n) == CHOOSE i \in 1..Len(pairs) :
                     /\ pairs[i][1] = n
                     /\ \A j \in (i + 1)..Len(pairs) : pairs[j][1] # n
  IN  FlattenRange([i \in 1..Len(pairs) |->
                      IF IsFirst(i)
                      THEN << <<pairs[i][1], pairs[LastOf(pairs[i][1])][2]>> >>
                      ELSE <<>>],
                   1, Len(pairs))

\* EffectiveInputs taking an override only when it is truthy
\* (userInputs[name] || value): the number 0 and null are passed over
EffectiveInputsTruthy(declared, userInputs) ==
  [i \in 1..Len(declared) |->
     <<declared[i][1],
       IF /\ declared[i][1] \in DOMAIN userInputs
          /\ userInputs[declared[i][1]] \notin {<<"0">>, <<"null">>}
       THEN userInputs[declared[i][1]] ELSE declared[i][2]>>]

\* the effective value of every declared input
EffectiveInputs(declared, userInputs) ==
  [i \in 1..Len(declared) |->
     <<declared[i][1],
       IF declared[i][1] \in DOMAIN userInputs
       THEN userInputs[declared[i][1]] ELSE declared[i][2]>>]

\* the forEach replacing every input name, from the k-th input on
RECURSIVE SubstituteInputs(_, _, _)
SubstituteInputs(script, inputs, k) ==
  IF k > Len(inputs) THEN script
  ELSE SubstituteInputs(ReplaceWord(script, inputs[k][1], inputs[k][2]),
                        inputs, k + 1)

extractPlotExpressions(scriptText, userInputs) ==
  IF scriptText = <<>> THEN [plots |-> <<>>, defs |-> <<>>, inputs |-> <<>>]
  ELSE CHOOSE out \in
         {CHOOSE res \in
            {CHOOSE r \in
               {[plots |-> Declarations(script, "plot"),
                 defs |-> AsMap(Declarations(script, "def")),
                 inputs |-> inputs] :
                  script \in {SubstituteInputs(cleaned, inputs, 1)}} : TRUE :
               inputs \in {AsMap(EffectiveInputs(
                                    Declarations(cleaned, "input"),
                                    userInputs))}} : TRUE :
            cleaned \in {BooleanOperators(scriptText)}} : TRUE

(***************************************************************************)
(* Inputs of the engine.  Scripts are token sequences; the names of their  *)
(* defs, plots and inputs are user identifiers, distinct from the names of *)
(* the base series.                                                        *)
(***************************************************************************)
\* runs of the engine followed in one behaviour
MaxRuns == 2

\* the shapes of the candle series
CandlePatterns == {"rising", "falling", "zigzag"}

CloseAt(pattern, i) ==
  CASE pattern = "rising" -> 8 + 2 * i
    [] pattern = "falling" -> 30 - 3 * i
    [] OTHER -> IF i % 2 = 1 THEN 12 ELSE 6

CandlesOf(pattern) ==
  [i \in 1..NumCandles |->
     [close |-> CloseAt(pattern, i), low |-> CloseAt(pattern, i) - i]]

CandleInputs == {CandlesOf(p) : p \in CandlePatterns} \cup {<<>>}

ScriptPlain ==
  <<"plot", "p", "=", "close", ";">>
ScriptInputs ==
  <<"input", "n", "=", "3", ";",
    "def", "a", "=", "close", "-", "low", ";",
    "plot", "p", "=", "a", "*", "n", ";",
    "plot", "q", "=", "close", "[", "1", "]", ";",
    "plot", "r", "=", "Average", "(", "close", ",", "n", ")", ";">>
ScriptNested ==
  <<"plot", "h", "=", "Highest", "(", "SimpleMovingAvg", "(", "close", ",",
    "3", ")", ",", "5", ")", ";",
    "plot", "q", "=", "Lowest", "(", "low", ",", "2", ")", ";">>
ScriptSelfRef ==
  <<"def", "x", "=", "x", "+", "1", ";",
    "plot", "p", "=", "x", "+", "1", ";",
    "plot", "q", "=", "close", ";">>
ScriptSelfRefWindow ==
  <<"def", "x", "=", "Average", "(", "x", ",", "3", ")", ";",
    "plot", "p", "=", "close", ";",
    "plot", "q", "=", "Average", "(", "x", ",", "2", ")", ";">>
ScriptMutual ==
  <<"def", "a", "=", "b", "+", "1", ";",
    "def", "b", "=", "a", "+", "1", ";",
    "plot", "p", "=", "a", ";",
    "plot", "q", "=", "close", ";">>
ScriptOrder ==
  <<"def", "b", "=", "a", "+", "1", ";",
    "def", "a", "=", "close", ";",
    "plot", "p", "=", "b", ";">>
ScriptFailing ==
  <<"plot", "p", "=", "foo", "+", "1", ";",
    "plot", "q", "=", "close", "/", "0", ";",
    "plot", "r", "=", "close", "-", "low", ";">>
ScriptNoPlots ==
  <<"def", "a", "=", "close", ";">>

EngineScripts ==
  {ScriptPlain, ScriptInputs, ScriptNested, ScriptSelfRef,
   ScriptSelfRefWindow, ScriptMutual, ScriptOrder, ScriptFailing,
   ScriptNoPlots, <<>>}

\* the caller's overrides of the declared inputs
InputOverrides(script) ==
  IF script = ScriptInputs THEN {<<>>, [n |-> <<"2">>]} ELSE {<<>>}

\* plots.map(p => p.exprRaw)
PlotFormulas(plots) == [j \in 1..Len(plots) |-> plots[j][2]]

(***************************************************************************)
(* The engine step by step: one call of extractPlotExpressions followed by *)
(* one call of evaluateFormulasOnCandles, an action per loop iteration.    *)
(*   eScript, eUserInputs, eCandles   the arguments of the run             *)
(*   eDefs, eFormulas                 the parsed script                     *)
(*   ePc                              "idle", "defs", "formulas", "done"   *)
(*   ePass, eK                        pass and def index of buildDefSeries *)
(*   eSt                              [evaluated, defSeries, progress,     *)
(*                                    log, cache]; cache is the Map the    *)
(*                                    last top-level evaluation left       *)
(*   eJ, eLabels                      formula index and labels so far      *)
(*   eRuns                            finished runs                        *)
(***************************************************************************)
VARIABLES eScript, eUserInputs, eCandles, eDefs, eFormulas, ePc, ePass, eK,
          eSt, eJ, eLabels, eRuns

engineVars == <<eScript, eUserInputs, eCandles, eDefs, eFormulas, ePc, ePass,
                eK, eSt, eJ, eLabels, eRuns>>

EngineIdle ==
  /\ eScript = <<>> /\ eUserInputs = <<>> /\ eCandles = <<>>
  /\ eDefs = <<>> /\ eFormulas = <<>>
  /\ ePc = "idle" /\ ePass = 0 /\ eK = 1
  /\ eSt = NoDefs(EmptyCache)
  /\ eJ = 1 /\ eLabels = <<>> /\ eRuns = 0

\* the next value of the pass counter (pass < 20 bounds it)
NextPass(pass) == IF pass + 1 < MaxPasses THEN pass + 1 ELSE pass

\* CollectLabel with one try/catch around the whole map: a failing formula
\* discards the labels collected before it
CollectLabelAbort(labels, label) ==
  IF label = Null THEN [j \in 1..(Len(labels) + 1) |-> Null]
  ELSE Append(labels, label)

\* labels.push of formulas.map
CollectLabel(labels, label) == Append(labels, label)

EngineStart(script, userInputs, candles) ==
  /\ ePc \in {"idle", "done"}
  /\ eRuns < MaxRuns
  /\ \E parsed \in {extractPlotExpressions(script, userInputs)} :
       /\ eScript' = script /\ eUserInputs' = userInputs
       /\ eCandles' = candles
       /\ eDefs' = parsed.defs /\ eFormulas' = PlotFormulas(parsed.plots)
       /\ ePass' = 0 /\ eK' = 1 /\ eJ' = 1
       /\ IF candles = <<>>
          THEN /\ ePc' = "done"
               /\ eLabels' = [j \in 1..Len(parsed.plots) |-> Null]
               /\ eSt' = [NoDefs(eSt.cache) EXCEPT
                            !.log = Tagged(<<"noCandlesWarn">>, {})]
               /\ eRuns' = eRuns + 1
          ELSE /\ ePc' = IF parsed.defs = <<>> THEN "formulas" ELSE "defs"
               /\ eLabels' = <<>>
               /\ eSt' = NoDefs(eSt.cache)
               /\ eRuns' = eRuns

\* one iteration of for (const defName of defNames)
EngineDefStep ==
  /\ ePc = "defs" /\ eK <= Len(eDefs)
  /\ eSt' = DefIteration(eSt, eCandles, eDefs, eK)
  /\ eK' = eK + 1
  /\ UNCHANGED <<eScript, eUserInputs, eCandles, eDefs, eFormulas, ePc, ePass,
                 eJ, eLabels, eRuns>>

\* the end of a pass: leave the pass loop or start the next pass
EnginePassEnd ==
  /\ ePc = "defs" /\ eK > Len(eDefs)
  /\ IF PassLoopEnds(ePass, eSt.progress)
     THEN /\ ePc' = "formulas"
          /\ eSt' = WarnUnevaluated(eSt, eDefs)
          /\ UNCHANGED <<ePass, eK>>
     ELSE /\ ePass' = NextPass(ePass)
          /\ eK' = 1
          /\ eSt' = [eSt EXCEPT !.progress = FALSE]
          /\ UNCHANGED ePc
  /\ UNCHANGED <<eScript, eUserInputs, eCandles, eDefs, eFormulas, eJ,
                 eLabels, eRuns>>

\* one callback of formulas.map
EngineFormulaStep ==
  /\ ePc = "formulas" /\ eJ <= Len(eFormulas)
  /\ \E r \in {FormulaLabel(eFormulas[eJ], eCandles, eDefs, eSt.defSeries,
                             eSt.cache)} :
       /\ eLabels' = CollectLabel(eLabels, r.label)
       /\ eSt' = [eSt EXCEPT !.log = @ \o r.log, !.cache = r.cache]
  /\ eJ' = eJ + 1
  /\ UNCHANGED <<eScript, eUserInputs, eCandles, eDefs, eFormulas, ePc, ePass,
                 eK, eRuns>>

\* return { labels, compiledCount }
EngineFinish ==
  /\ ePc = "formulas" /\ eJ > Len(eFormulas)
  /\ ePc' = "done"
  /\ eRuns' = eRuns + 1
  /\ UNCHANGED <<eScript, eUserInputs, eCandles, eDefs, eFormulas, ePass, eK,
                 eSt, eJ, eLabels>>


(***************************************************************************)
(* scanStage3Rows: classification, padding and flattening of the labels.   *)
(***************************************************************************)
Missing(x) == x \in {Null, Undefined}

\* thresholds[j] || { min: null, max: null }
ThresholdAt(thresholds, j) ==
  IF j <= Len(thresholds) THEN thresholds[j]
  ELSE [min |-> Null, max |-> Null]

\* LabelStatus with the test against max made before the test against min
LabelStatusAboveFirst(v, thr) ==
  IF Missing(v) THEN "unknown"
  ELSE LET hasMin == ~Missing(thr.min)
           hasMax == ~Missing(thr.max)
       IN  IF hasMax /\ LtV(thr.max, v) THEN "above"
           ELSE IF hasMin /\ LtV(v, thr.min) THEN "below"
           ELSE IF hasMin \/ hasMax THEN "within"
           ELSE "noFilter"

\* the status of label value v under threshold thr
LabelStatus(v, thr) ==
  IF Missing(v) THEN "unknown"
  ELSE LET hasMin == ~Missing(thr.min)
           hasMax == ~Missing(thr.max)
       IN  IF hasMin /\ LtV(v, thr.min) THEN "below"
           ELSE IF hasMax /\ LtV(thr.max, v) THEN "above"
           ELSE IF hasMin \/ hasMax THEN "within"
           ELSE "noFilter"

\* { value: v, min: thr.min, max: thr.max, status }
LabelObject(v, thresholds, j) ==
  LET thr == ThresholdAt(thresholds, j)
  IN  [value |-> v, min |-> thr.min, max |-> thr.max,
       status |-> LabelStatus(v, thr)]

\* { value: null, status }
BlankLabel(status) ==
  [value |-> Null, min |-> Undefined, max |-> Undefined, status |-> status]

\* Array(5).fill(null).map(() => ({ value: null, status }))
BlankSlot(status) == [l \in 1..LabelsPerStudy |-> BlankLabel(status)]

\* TruncateLabels without the slice
TruncateLabelsNone(labels) == labels

\* labels.slice(0, 5)
TruncateLabels(labels) ==
  SubSeq(labels, 1, IF Len(labels) < LabelsPerStudy THEN Len(labels)
                    ELSE LabelsPerStudy)

\* while (labelObjects.length < 5) labelObjects.push(...)
PadLabels(labelObjects) ==
  labelObjects \o [l \in 1..(LabelsPerStudy - Len(labelObjects)) |->
                     BlankLabel("empty")]

\* studies[studyKey] || {} with its defaults; a config is
\* [formula, thresholds, inputs], NoConfig the absent one
NoConfig == [formula |-> <<>>, thresholds |-> <<>>, inputs |-> <<>>]

\* the label objects of one study slot for the candles of one option
StudySlot(cfg, candles) ==
  IF cfg.formula = <<>> THEN BlankSlot("empty")
  ELSE CHOOSE out \in
         {IF parsed.plots = <<>> THEN BlankSlot("empty")
          ELSE CHOOSE slot \in
                 {PadLabels([j \in 1..Len(TruncateLabels(e.labels)) |->
                               LabelObject(TruncateLabels(e.labels)[j],
                                           cfg.thresholds, j)]) :
                    e \in {evaluateFormulasOnCandles(candles,
                             PlotFormulas(parsed.plots), parsed.defs)}} : TRUE :
            parsed \in {extractPlotExpressions(cfg.formula, cfg.inputs)}} :
         TRUE

\* study1 .. study25 of a row from the label objects of its slots
FlattenLabels(studyLabels) ==
  [n \in 1..(NumStudies * LabelsPerStudy) |->
     LET slot == ((n - 1) \div LabelsPerStudy) + 1
         l == ((n - 1) % LabelsPerStudy) + 1
     IN  IF slot <= Len(studyLabels) /\ l <= Len(studyLabels[slot])
         THEN studyLabels[slot][l].value
         ELSE Null]

\* emptyLabels: study1 .. study25 all null
EmptyLabels == [n \in 1..(NumStudies * LabelsPerStudy) |-> Null]

(***************************************************************************)
(* scanStage3Rows: symbols and rows.  A row is [id, symbol]; the symbol "" *)
(* stands for a row without one.                                           *)
(***************************************************************************)
RawSymbols == {"aapl", "AAPL ", "MSFT", ""}

\* String.prototype.toUpperCase and String.prototype.trim on the symbols
ToUpper(sym) == IF sym = "aapl" THEN "AAPL" ELSE sym
Trim(sym) == IF sym = "AAPL " THEN "AAPL" ELSE sym

\* row.symbol?.toUpperCase().trim()
GroupKey(row) == Trim(ToUpper(row.symbol))
\* (row.symbol || '').toUpperCase()
LookupKey(row) == ToUpper(row.symbol)

\* Array.from(symbolMap.keys()): the keys in order of first appearance
OptionSymbols(rows) ==
  FlattenRange(
    [i \in 1..Len(rows) |->
       IF GroupKey(rows[i]) # ""
          /\ \A j \in 1..(i - 1) : GroupKey(rows[j]) # GroupKey(rows[i])
       THEN <<GroupKey(rows[i])>> ELSE <<>>],
    1, Len(rows))

\* the response data of a fetch: hasCandles tells whether it is an object
\* with a candles field
NoData == [hasCandles |-> FALSE, candles |-> <<>>]

\* getMultipleIntradayData: settled[k] is the settled promise of symbols[k],
\* [status, value]; the result is [threw, items]
getMultipleIntradayData(symbols, settled) ==
  [threw |-> FALSE,
   items |-> [k \in 1..Len(symbols) |->
                [symbol |-> symbols[k],
                 data |-> IF settled[k].status = "fulfilled"
                          THEN settled[k].value ELSE NoData,
                 error |-> settled[k].status = "rejected"]]]

\* the items whose candles are stored in candlesBySymbol
Loaded(items) ==
  {k \in 1..Len(items) :
     /\ ~items[k].error
     /\ items[k].data.hasCandles
     /\ Len(items[k].data.candles) > 0}

\* candlesBySymbol: upper-cased symbol -> candles (the last item of a key)
CandlesBySymbol(items) ==
  [key \in {ToUpper(items[k].symbol) : k \in Loaded(items)} |->
     items[CHOOSE k \in Loaded(items) :
             /\ ToUpper(items[k].symbol) = key
             /\ \A j \in Loaded(items) :
                  ToUpper(items[j].symbol) = key => j <= k].data.candles]

\* NoIntradayData with the comparison < 0
NoIntradayDataNever(candlesBySymbol) == Cardinality(DOMAIN candlesBySymbol) < 0

\* Object.keys(candlesBySymbol).length === 0
NoIntradayData(candlesBySymbol) == Cardinality(DOMAIN candlesBySymbol) = 0

\* ProcessRow that classifies the labels of every slot against the
\* thresholds of the first study
ProcessRowFirstThresholds(row, candlesBySymbol, studies) ==
  IF LookupKey(row) = "" THEN <<>>
  ELSE IF LookupKey(row) \notin DOMAIN candlesBySymbol
  THEN <<[id |-> row.id, symbol |-> row.symbol, flat |-> EmptyLabels,
          studyLabels |-> <<>>]>>
  ELSE CHOOSE out \in
         {<<[id |-> row.id, symbol |-> row.symbol,
             flat |-> FlattenLabels(studyLabels),
             studyLabels |-> studyLabels]>> :
            studyLabels \in
              {[i \in 1..NumStudies |->
                  StudySlot(IF i \in DOMAIN studies
                            THEN [studies[i] EXCEPT !.thresholds =
                                    IF 1 \in DOMAIN studies
                                    THEN studies[1].thresholds ELSE @]
                            ELSE NoConfig,
                            candlesBySymbol[LookupKey(row)])] \o <<>>}} : TRUE

\* the result rows of one input row: none for a row without symbol, a row
\* of nulls without candles, the evaluated row otherwise
ProcessRow(row, candlesBySymbol, studies) ==
  IF LookupKey(row) = "" THEN <<>>
  ELSE IF LookupKey(row) \notin DOMAIN candlesBySymbol
  THEN <<[id |-> row.id, symbol |-> row.symbol, flat |-> EmptyLabels,
          studyLabels |-> <<>>]>>
  ELSE CHOOSE out \in
         {<<[id |-> row.id, symbol |-> row.symbol,
             flat |-> FlattenLabels(studyLabels),
             studyLabels |-> studyLabels]>> :
            studyLabels \in
              {[i \in 1..NumStudies |->
                  StudySlot(IF i \in DOMAIN studies THEN studies[i]
                            ELSE NoConfig,
                            candlesBySymbol[LookupKey(row)])] \o <<>>}} : TRUE

ErrorResponse(status) == [status |-> status, success |-> FALSE, rows |-> <<>>]

\* the part of the handler after the await
ScanContinuation(rows, studies, multi) ==
  IF multi.threw THEN ErrorResponse(500)
  ELSE LET candlesBySymbol == CandlesBySymbol(multi.items)
       IN  IF NoIntradayData(candlesBySymbol) THEN ErrorResponse(500)
           ELSE [status |-> 200, success |-> TRUE,
                 rows |-> FlattenRange(
                            [i \in 1..Len(rows) |->
                               ProcessRow(rows[i], candlesBySymbol, studies)],
                            1, Len(rows))]

(***************************************************************************)
(* The scan request step by step: the handler up to the await, the         *)
(* settling of the fetches in any order, and the handler after the await.  *)
(*   sPc        "idle", "fetching", "responded"                            *)
(*   sRows      the rows of the request                                    *)
(*   sStudies   the studies of the request: slot -> config                 *)
(*   sSymbols   the option symbols whose candles are fetched               *)
(*   sSettled   the promise of every fetch                                 *)
(*   sResponse  the response sent                                          *)
(***************************************************************************)
\* rows of a request
MaxRows == 2

ScriptSixPlots ==
  <<"plot", "p1", "=", "close", ";", "plot", "p2", "=", "low", ";",
    "plot", "p3", "=", "close", "-", "low", ";",
    "plot", "p4", "=", "close", "[", "1", "]", ";",
    "plot", "p5", "=", "1", ";", "plot", "p6", "=", "2", ";">>

StudiesPlots ==
  (1 :> [formula |-> ScriptInputs,
         thresholds |-> <<[min |-> Num(1), max |-> Num(9)],
                          [min |-> Num(15), max |-> Num(17)],
                          [min |-> Null, max |-> Num(10)]>>,
         inputs |-> [n |-> <<"2">>]])
  @@ (2 :> [formula |-> ScriptSixPlots, thresholds |-> <<>>,
            inputs |-> <<>>])
  @@ (3 :> [formula |-> ScriptNoPlots, thresholds |-> <<>>, inputs |-> <<>>])
  @@ (4 :> NoConfig)

StudiesFailing ==
  (1 :> [formula |-> ScriptFailing,
         thresholds |-> <<[min |-> Num(1), max |-> Undefined]>>,
         inputs |-> <<>>])
  @@ (3 :> [formula |-> ScriptSelfRefWindow, thresholds |-> <<>>,
            inputs |-> <<>>])
  @@ (5 :> [formula |-> ScriptMutual, thresholds |-> <<>>, inputs |-> <<>>])

StudyInputs == {StudiesPlots, StudiesFailing, <<>>}

RECURSIVE SymbolLists(_)
SymbolLists(n) ==
  IF n = 0 THEN {<<>>}
  ELSE SymbolLists(n - 1)
       \cup {Append(l, sym) : l \in {m \in SymbolLists(n - 1) : Len(m) = n - 1},
                              sym \in RawSymbols}

RowsOf(symbols) ==
  [i \in 1..Len(symbols) |-> [id |-> i, symbol |-> symbols[i]]]

RowInputs == {RowsOf(l) : l \in SymbolLists(MaxRows)}

Pending == [status |-> "pending", value |-> NoData]

FetchOutcomes ==
  {[status |-> "rejected", value |-> NoData],
   [status |-> "fulfilled", value |-> NoData],
   [status |-> "fulfilled", value |-> [hasCandles |-> TRUE, candles |-> <<>>]],
   [status |-> "fulfilled",
    value |-> [hasCandles |-> TRUE, candles |-> CandlesOf("rising")]]}

VARIABLES sPc, sRows, sStudies, sSymbols, sSettled, sResponse

scanVars == <<sPc, sRows, sStudies, sSymbols, sSettled, sResponse>>

NoResponse == [status |-> 0, success |-> FALSE, rows |-> <<>>]

ScanIdle ==
  /\ sPc = "idle" /\ sRows = <<>> /\ sStudies = <<>>
  /\ sSymbols = <<>> /\ sSettled = <<>> /\ sResponse = NoResponse

\* the request arrives: validation, grouping, and the fetches are started
ScanReceive(rows, studies) ==
  /\ sPc = "idle"
  /\ sRows' = rows /\ sStudies' = studies
  /\ IF rows = <<>> \/ OptionSymbols(rows) = <<>>
     THEN /\ sPc' = "responded"
          /\ sResponse' = ErrorResponse(400)
          /\ UNCHANGED <<sSymbols, sSettled>>
     ELSE /\ sPc' = "fetching"
          /\ sSymbols' = OptionSymbols(rows)
          /\ sSettled' = [k \in 1..Len(OptionSymbols(rows)) |-> Pending]
          /\ UNCHANGED sResponse

\* the fetch of the k-th symbol settles
FetchSettle(k, outcome) ==
  /\ sPc = "fetching"
  /\ sSettled[k] = Pending
  /\ sSettled' = [sSettled EXCEPT ![k] = outcome]
  /\ UNCHANGED <<sPc, sRows, sStudies, sSymbols, sResponse>>

\* every fetch has settled: the handler resumes and responds
ScanRespond ==
  /\ sPc = "fetching"
  /\ \A k \in 1..Len(sSettled) : sSettled[k] # Pending
  /\ sPc' = "responded"
  /\ sResponse' = ScanContinuation(sRows, sStudies,
                    getMultipleIntradayData(sSymbols, sSettled))
  /\ UNCHANGED <<sRows, sStudies, sSymbols, sSettled>>


(***************************************************************************)
(* The classification of one label on its own.                             *)
(*   cValue, cThresholds   a label value and the thresholds of its study   *)
(*   cLabel                the label object made of them                   *)
(***************************************************************************)
BoundInputs == {Null, Undefined} \cup {Num(k) : k \in 0..3}

ThresholdInputs ==
  {<<>>} \cup {<<[min |-> lo, max |-> hi]>> : lo \in BoundInputs,
                                             hi \in BoundInputs}

VARIABLES cValue, cThresholds, cLabel

classifyVars == <<cValue, cThresholds, cLabel>>

ClassifyIdle ==
  /\ cValue = Null /\ cThresholds = <<>> /\ cLabel = BlankLabel("pending")

\* the callback of labels.slice(0, 5).map for the first label
Classify(v, thresholds) ==
  /\ cValue' = v /\ cThresholds' = thresholds
  /\ cLabel' = LabelObject(v, thresholds, 1)


(***************************************************************************)
(* The engine and the controller that keep the study configuration in a    *)
(* module-level variable (currentConfig, setStudyConfig, saveConfig).      *)
(***************************************************************************)
LegacyNames == {"open", "high", "low", "close", "volume", "oi", "delta",
                "gamma", "theo"}

\* let currentConfig = { formulas, thresholds, buffer }
DefaultConfig ==
  [formulas |-> [i \in 1..5 |-> <<"0">>],
   thresholds |-> <<[min |-> Num(-25), max |-> Num(-20)],
                    [min |-> Num(-20), max |-> Num(-15)],
                    [min |-> Num(-15), max |-> Num(-10)],
                    [min |-> Num(-10), max |-> Num(-5)],
                    [min |-> Num(-8), max |-> Num(-3)]>>,
   buffer |-> Zero]

\* an update replaces a field only when it has the expected type and size;
\* an absent list is <<>>, an absent buffer Undefined
setStudyConfig(config, update) ==
  [formulas |-> IF Len(update.formulas) = 5 THEN update.formulas
                ELSE config.formulas,
   thresholds |-> IF Len(update.thresholds) = 5 THEN update.thresholds
                  ELSE config.thresholds,
   buffer |-> IF Missing(update.buffer) THEN config.buffer
              ELSE update.buffer]

\* close[2] -> off("close", 2) and sma(close, 5) -> sma("close", 5), for
\* the lower-case spellings of the series names
LegacyOffsetAt(s, i) ==
  /\ i >= 1 /\ i + 3 <= Len(s)
  /\ s[i] \in LegacyNames
  /\ s[i + 1] = "[" /\ s[i + 2] \in Digits /\ s[i + 3] = "]"

LegacySmaArgAt(s, i) ==
  /\ i >= 3 /\ i + 3 <= Len(s)
  /\ ToLower(s[i - 2]) = "sma" /\ s[i - 1] = "("
  /\ s[i] \in LegacyNames
  /\ s[i + 1] = "," /\ s[i + 2] \in Digits /\ s[i + 3] = ")"

LegacyNormalizeFormula(raw) ==
  LET offsets ==
        FlattenRange(
          [i \in 1..Len(raw) |->
             IF LegacyOffsetAt(raw, i)
             THEN <<"off", "(", Quoted(raw[i]), ",", raw[i + 2], ")">>
             ELSE IF \E j \in {i - 1, i - 2, i - 3} : LegacyOffsetAt(raw, j)
             THEN <<>>
             ELSE <<raw[i]>>],
          1, Len(raw))
  IN  [i \in 1..Len(offsets) |->
         IF LegacySmaArgAt(offsets, i) THEN Quoted(offsets[i])
         ELSE IF i >= 1 /\ i + 5 <= Len(offsets)
                 /\ LegacySmaArgAt(offsets, i + 2)
         THEN "sma"
         ELSE offsets[i]]

\* c.name ?? 0 for every candle
LegacySeries(candles) ==
  [name \in LegacyNames |->
     [i \in 1..Len(candles) |->
        IF name \in CandleFields THEN Num(candles[i][name]) ELSE Zero]]

\* the scope of the last candle: fields, off, sma and the math helpers
LegacyScope(candles) ==
  LET series == LegacySeries(candles)
      i == Len(candles)
      At(arr, idx) == IF idx >= 1 /\ idx <= Len(arr) THEN arr[idx] ELSE Zero
  IN  [vars |-> [name \in LegacyNames |-> series[name][i]],
       fns |-> {"off", "sma", "abs", "min", "max"},
       off |-> [name \in LegacyNames |->
                  [k \in 0..20 |-> At(series[name], i - k)]],
       sma |-> [name \in LegacyNames |->
                  [len \in 0..20 |->
                     IF len = 0 THEN Zero
                     ELSE DivV(SumWindow(series[name], WindowStart(i, len), i),
                               Num(i - WindowStart(i, len) + 1))]]]

\* compileFormula and node.evaluate: the label of one formula, null when
\* the text is empty, does not parse, does not evaluate or is not finite
LegacyLabel(formula, candles) ==
  CHOOSE out \in
    {CHOOSE label \in
       {IF normalized = <<>> \/ ~r.ok \/ ~IsFiniteV(r.v) THEN Null ELSE r.v :
          r \in {MathEval(normalized, LegacyScope(candles))}} : TRUE :
       normalized \in {LegacyNormalizeFormula(formula) \o <<>>}} : TRUE

\* evaluateFormulasOnCandles(candles) reading currentConfig
LegacyEvaluateFormulas(candles, config) ==
  IF candles = <<>>
  THEN [labels |-> [i \in 1..5 |-> Null], thresholds |-> config.thresholds,
        buffer |-> Undefined]
  ELSE [labels |-> [i \in 1..Len(config.formulas) |->
                      LegacyLabel(config.formulas[i], candles)],
        thresholds |-> config.thresholds,
        buffer |-> config.buffer]

\* the status of a label with the far-above band of the buffer
LegacyLabelStatus(v, thr, buffer) ==
  LET margin == IF Missing(buffer) THEN Zero ELSE buffer
  IN  IF Missing(v) THEN "unknown"
      ELSE IF ~Missing(thr.min) /\ LtV(v, thr.min) THEN "below"
      ELSE IF ~Missing(thr.max) /\ LtV(AddV(thr.max, margin), v)
      THEN "farAbove"
      ELSE IF ~Missing(thr.max) /\ LtV(thr.max, v) THEN "above"
      ELSE "within"

\* the label objects of one underlying
LegacyLabelObjects(candles, config) ==
  CHOOSE out \in
    {[i \in 1..Len(e.labels) |->
        LET thr == ThresholdAt(e.thresholds, i)
        IN  [value |-> e.labels[i], min |-> thr.min, max |-> thr.max,
             status |-> LegacyLabelStatus(e.labels[i], thr, e.buffer)]]
       \o <<>> :
       e \in {LegacyEvaluateFormulas(candles, config)}} : TRUE

\* Object.keys(byUnderlying): the underlyings in order of first appearance
Underlyings(rows) ==
  FlattenRange(
    [i \in 1..Len(rows) |->
       IF \A j \in 1..(i - 1) : rows[j] # rows[i] THEN <<rows[i]>> ELSE <<>>],
    1, Len(rows))

\* the scan after the await: every row with the labels of its underlying
LegacyContinuation(rows, multi, config) ==
  IF multi.threw THEN ErrorResponse(500)
  ELSE [status |-> 200, success |-> TRUE,
        rows |-> FlattenRange(
                   [k \in 1..Len(multi.items) |->
                      CHOOSE out \in
                        {FlattenRange(
                           [i \in 1..Len(rows) |->
                              IF rows[i] = multi.items[k].symbol
                              THEN <<[underlying |-> rows[i],
                                      labels |-> labels]>>
                              ELSE <<>>],
                           1, Len(rows)) :
                           labels \in {LegacyLabelObjects(
                                         multi.items[k].data.candles,
                                         config)}} : TRUE],
                   1, Len(multi.items))]

(***************************************************************************)
(* Requests to that controller: scans and configuration updates in any     *)
(* interleaving.                                                           *)
(*   currentConfig   the module-level configuration                        *)
(*   lReqs           per scan request [pc, rows, settled, response]        *)
(***************************************************************************)
\* concurrent scan requests
NumRequests == 2

LegacyRowInputs == {<<>>, <<"SPY">>}

LegacyFormulas ==
  <<<<"close">>, <<"close", "-", "low">>, <<"close", "[", "1", "]">>,
    <<"sma", "(", "close", ",", "2", ")">>, <<"foo">>>>

LegacyThresholds == [i \in 1..5 |-> [min |-> Num(10), max |-> Num(15)]]

UpdateInputs ==
  {[formulas |-> f, thresholds |-> t, buffer |-> b] :
     f \in {<<>>, LegacyFormulas}, t \in {<<>>, LegacyThresholds},
     b \in {Undefined, Num(2)}}

LegacyOutcomes ==
  {[status |-> "rejected", value |-> NoData],
   [status |-> "fulfilled",
    value |-> [hasCandles |-> TRUE, candles |-> CandlesOf("rising")]]}

VARIABLES currentConfig, lReqs

legacyVars == <<currentConfig, lReqs>>

LegacyIdle ==
  /\ currentConfig = DefaultConfig
  /\ lReqs = [r \in 1..NumRequests |->
                [pc |-> "idle", rows |-> <<>>, settled |-> <<>>,
                 response |-> NoResponse]]

\* saveConfig: the update is applied at once
SaveConfig(update) ==
  /\ currentConfig' = setStudyConfig(currentConfig, update)
  /\ UNCHANGED lReqs

\* a scan request arrives: validation, grouping, the fetches are started
LegacyScanReceive(r, rows) ==
  /\ lReqs[r].pc = "idle"
  /\ lReqs' = [lReqs EXCEPT ![r] =
                 IF rows = <<>>
                 THEN [@ EXCEPT !.pc = "responded",
                                !.response = ErrorResponse(400)]
                 ELSE [@ EXCEPT !.pc = "fetching", !.rows = rows]]
  /\ UNCHANGED currentConfig

\* the fetches of request r have settled: its handler resumes and responds
LegacyScanRespond(r, settled) ==
  /\ lReqs[r].pc = "fetching"
  /\ Len(settled) = Len(Underlyings(lReqs[r].rows))
  /\ lReqs' = [lReqs EXCEPT ![r] =
                 [@ EXCEPT !.pc = "responded", !.settled = settled,
                           !.response = LegacyContinuation(
                              lReqs[r].rows,
                              getMultipleIntradayData(
                                Underlyings(lReqs[r].rows), settled),
                              currentConfig)]]
  /\ UNCHANGED currentConfig


(***************************************************************************)
(* The window functions and the offset accessor on their own.              *)
(*   aFunc, aInput, aLength   the arguments of applyAggregation            *)
(*   aOut                     the series it returns                        *)
(*   oName, oOffset, oCandles the expression NAME[OFFSET] and the candles  *)
(*   oOut                     the series the expression evaluates to       *)
(***************************************************************************)
\* the longest input series of applyAggregation that is enumerated
MaxSeriesLen == 4

\* the longest window
MaxWindowLen == 6

SeriesValues == {Num(0), Num(3), Num(-2)}

RECURSIVE SeriesUpTo(_)
SeriesUpTo(n) ==
  IF n = 0 THEN {<<>>}
  ELSE SeriesUpTo(n - 1)
       \cup {Append(q, v) : q \in {r \in SeriesUpTo(n - 1) : Len(r) = n - 1},
                             v \in SeriesValues}

\* the closes of the scenario of the moving average
ExampleCloses == <<Num(10), Num(12), Num(14), Num(16), Num(18)>>

SeriesInputs ==
  SeriesUpTo(MaxSeriesLen)
  \cup {buildSeries(CandlesOf(p))["close"] \o <<>> : p \in CandlePatterns}
  \cup {ExampleCloses}

LengthInputs == {Num(l) : l \in 0..MaxWindowLen}

OffsetNames == {"close", "low", "Close", "LOW", "volume"}

OffsetInputs == {"0", "1", "2", "3", "4", "5", "6"}

VARIABLES aFunc, aInput, aLength, aOut, oName, oOffset, oCandles, oOut

seriesVars == <<aFunc, aInput, aLength, aOut, oName, oOffset, oCandles, oOut>>

SeriesIdle ==
  /\ aFunc = "" /\ aInput = <<>> /\ aLength = Zero /\ aOut = <<>>
  /\ oName = "" /\ oOffset = "0" /\ oCandles = <<>> /\ oOut = <<>>

\* one call of applyAggregation; candles has one entry per value of the
\* input series
Aggregate(funcName, inputSeries, length) ==
  /\ aFunc = "" /\ oName = ""
  /\ aFunc' = funcName /\ aInput' = inputSeries /\ aLength' = length
  /\ aOut' = applyAggregation(funcName, inputSeries, length, inputSeries)
              \o <<>>
  /\ UNCHANGED <<oName, oOffset, oCandles, oOut>>

\* the evaluation of NAME[OFFSET] over the candles
OffsetAccess(name, offset, candles) ==
  /\ aFunc = "" /\ oName = ""
  /\ oName' = name /\ oOffset' = offset /\ oCandles' = candles
  /\ oOut' = evaluateFormulaRecursive(<<name, "[", offset, "]">>, candles,
                                      <<>>, <<>>, EmptyCache, 1).vals \o <<>>
  /\ UNCHANGED <<aFunc, aInput, aLength, aOut>>


(***************************************************************************)
(* One study evaluated in one call: extractPlotExpressions followed by     *)
(* evaluateFormulasOnCandles on the plots and defs it returns.             *)
(*   fScript, fUserInputs, fCandles   the arguments                        *)
(*   fParsed                          [plots, defs, inputs]                *)
(*   fResult                          [labels, log]                        *)
(*   fDone                            a study has been evaluated           *)
(***************************************************************************)
ScriptUnknown ==
  <<"plot", "p", "=", "close", "+", "foo", ";",
    "plot", "q", "=", "close", ";",
    "plot", "r", "=", "bar", "*", "low", "-", "close", ";">>
ScriptSyntax ==
  <<"plot", "p", "=", "close", "+", ";",
    "plot", "q", "=", "(", "close", ";",
    "plot", "r", "=", "low", ";">>
ScriptNonFinite ==
  <<"plot", "p", "=", "close", "/", "0", ";",
    "plot", "q", "=", "0", "/", "0", ";",
    "plot", "r", "=", "nosuch", "(", "close", ")", ";",
    "plot", "s", "=", "close", "-", "low", ";">>
ScriptPlotRef ==
  <<"plot", "a", "=", "close", ";",
    "plot", "b", "=", "a", "+", "1", ";",
    "def", "c", "=", "a", "*", "2", ";",
    "plot", "d", "=", "c", ";">>
ScriptWindows ==
  <<"plot", "m", "=", "SimpleMovingAvg", "(", "close", ",", "3", ")", ";",
    "plot", "o", "=", "close", "[", "1", "]", ";">>

ScriptDefRef ==
  <<"def", "a", "=", "close", "[", "1", "]", ";",
    "def", "w", "=", "SimpleMovingAvg", "(", "close", ",", "3", ")", ";",
    "def", "s", "=", "close", "-", "low", ";",
    "plot", "p", "=", "a", "*", "2", ";",
    "plot", "q", "=", "w", "+", "1", ";",
    "plot", "r", "=", "s", "*", "2", ";">>

FormulaScripts ==
  {ScriptUnknown, ScriptSyntax, ScriptNonFinite, ScriptPlotRef, ScriptWindows,
   ScriptInputs, ScriptOrder, ScriptNoPlots, ScriptDefRef}

\* the candle lists: every pattern cut to its first n candles
FormulaCandles ==
  {SubSeq(CandlesOf(p), 1, n) : p \in CandlePatterns, n \in 0..NumCandles}

VARIABLES fScript, fUserInputs, fCandles, fParsed, fResult, fDone

formulaVars == <<fScript, fUserInputs, fCandles, fParsed, fResult, fDone>>

FormulaIdle ==
  /\ fScript = <<>> /\ fUserInputs = <<>> /\ fCandles = <<>>
  /\ fParsed = [plots |-> <<>>, defs |-> <<>>, inputs |-> <<>>]
  /\ fResult = [labels |-> <<>>, log |-> <<>>]
  /\ fDone = FALSE

\* the evaluation of one study slot on the candles of one symbol
EvaluateStudy(script, userInputs, candles) ==
  /\ ~fDone
  /\ fScript' = script /\ fUserInputs' = userInputs /\ fCandles' = candles
  /\ \E parsed \in {extractPlotExpressions(script, userInputs)} :
       /\ fParsed' = parsed
       /\ \E result \in {evaluateFormulasOnCandles(
                             candles, PlotFormulas(parsed.plots),
                             parsed.defs)} :
            fResult' = [labels |-> result.labels \o <<>>,
                        log |-> result.log \o <<>>]
  /\ fDone' = TRUE


(***************************************************************************)
(* extractPlotExpressions on its own, on scripts put together from         *)
(* declarations, well-formed and malformed.                                *)
(*   pPieces       the declarations of the script, in order                *)
(*   pUserInputs   the caller's overrides                                  *)
(*   pParsed       [plots, defs, inputs]                                   *)
(*   pDone         a script has been parsed                                *)
(***************************************************************************)
\* declarations in a script
MaxPieces == 3

WellFormedPieces == {"input", "def", "plot"}

\* a declaration without a name, without "=", with an empty expression,
\* without ";"
MalformedPieces == {"noName", "noEquals", "noExpr", "noSemicolon"}

PieceText(piece) ==
  CASE piece = "input" -> <<"input", "n", "=", "3", ";">>
    [] piece = "def" -> <<"def", "a", "=", "n", "+", "nn", ";">>
    [] piece = "plot" -> <<"plot", "p", "=", "a", "*", "n", ";">>
    [] piece = "noName" -> <<"def", "=", "close", ";">>
    [] piece = "noEquals" -> <<"def", "b", "close", ";">>
    [] piece = "noExpr" -> <<"def", "c", "=", " ", ";">>
    [] piece = "noSemicolon" -> <<"plot", "d", "=", "low">>

RECURSIVE PieceLists(_)
PieceLists(n) ==
  IF n = 0 THEN {<<>>}
  ELSE PieceLists(n - 1)
       \cup {Append(l, piece) :
               l \in {m \in PieceLists(n - 1) : Len(m) = n - 1},
               piece \in WellFormedPieces \cup MalformedPieces}

ScriptOf(pieces) ==
  FlattenRange([i \in 1..Len(pieces) |-> PieceText(pieces[i])],
               1, Len(pieces))

\* the overrides of input n: none, a text, the number 0, null
OverrideInputs == {<<>>, [n |-> <<"2">>], [n |-> <<"0">>], [n |-> <<"null">>]}

VARIABLES pPieces, pUserInputs, pParsed, pDone

parseVars == <<pPieces, pUserInputs, pParsed, pDone>>

ParseIdle ==
  /\ pPieces = <<>> /\ pUserInputs = <<>>
  /\ pParsed = [plots |-> <<>>, defs |-> <<>>, inputs |-> <<>>]
  /\ pDone = FALSE

\* one call of extractPlotExpressions
Extract(pieces, userInputs) ==
  /\ ~pDone
  /\ pPieces' = pieces /\ pUserInputs' = userInputs
  /\ \E parsed \in {extractPlotExpressions(ScriptOf(pieces), userInputs)} :
       pParsed' = [plots |-> parsed.plots \o <<>>,
                   defs |-> parsed.defs \o <<>>,
                   inputs |-> parsed.inputs \o <<>>]
  /\ pDone' = TRUE

(***************************************************************************)
(* evaluateRows: rows that carry their own candles are evaluated against   *)
(* a flat formula list or against the plots of the raw study scripts.      *)
(*   rRows, rFlat, rRaw   the arguments; rRaw[s] is the script under the   *)
(*                        key study<s>, <<>> when the key is missing       *)
(*   rResults             the returned list; a result is [symbol, labels,  *)
(*                        fields], fields being the study<idx> properties  *)
(*                        the result object has, by idx                    *)
(*   rDone                a call has returned                              *)
(***************************************************************************)
\* the cap on the formula list
MaxFormulas == 25

\* rows in a call
MaxEvalRows == 2

\* formulas.slice(0, n)
TakeFirst(q, n) == SubSeq(q, 1, IF Len(q) < n THEN Len(q) ELSE n)

\* the plot expressions of the raw scripts study1..study5, in key order
RawFormulas(raw) ==
  FlattenRange(
    [s \in 1..Len(raw) |->
       IF raw[s] = <<>> THEN <<>>
       ELSE PlotFormulas(extractPlotExpressions(raw[s], <<>>).plots)],
    1, Len(raw))

\* the formula list of a call: the flat list, or the plots of the raw
\* scripts when the flat list is empty, cut to 25
RowFormulas(flat, raw) ==
  TakeFirst(IF flat = <<>> THEN RawFormulas(raw) ELSE flat, MaxFormulas)

\* Object.assign(allDefs, defs) over study1..study5
CollectDefs(raw) ==
  AsMap(FlattenRange(
          [s \in 1..Len(raw) |->
             IF raw[s] = <<>> THEN <<>>
             ELSE extractPlotExpressions(raw[s], <<>>).defs],
          1, Len(raw)))

\* the callback of rows.map
RowResult(row, formulas, raw) ==
  IF row.candles = <<>>
  THEN [symbol |-> row.symbol,
        labels |-> [j \in 1..Len(formulas) |-> Null],
        fields |-> <<>>]
  ELSE CHOOSE out \in
         {[symbol |-> row.symbol, labels |-> r.labels \o <<>>,
           fields |-> r.labels \o <<>>] :
            r \in {evaluateFormulasOnCandles(row.candles, formulas,
                                             CollectDefs(raw))}} : TRUE

evaluateRows(rows, flat, raw) ==
  CHOOSE out \in
    {[i \in 1..Len(rows) |-> RowResult(rows[i], formulas, raw)] \o <<>> :
       formulas \in {RowFormulas(flat, raw)}} : TRUE

EvalSymbols == {"SPY", "QQQ"}

EvalCandles == {<<>>, SubSeq(CandlesOf("rising"), 1, 2), CandlesOf("zigzag")}

EvalRowValues ==
  {[symbol |-> sym, candles |-> candles] :
     sym \in EvalSymbols, candles \in EvalCandles}

RECURSIVE EvalRowLists(_)
EvalRowLists(n) ==
  IF n = 0 THEN {<<>>}
  ELSE EvalRowLists(n - 1)
       \cup {Append(l, row) :
               l \in {m \in EvalRowLists(n - 1) : Len(m) = n - 1},
               row \in EvalRowValues}

\* flat formula lists: none, one, two, one more than the cap
FlatInputs ==
  {<<>>, << <<"close">> >>, << <<"close", "-", "low">>, <<"low">> >>,
   [j \in 1..(MaxFormulas + 1) |-> <<"close">>]}

\* raw scripts: none, study1, study1 and study2, study2 only
RawInputs ==
  {<<>>, <<ScriptInputs>>, <<ScriptPlain, ScriptInputs>>,
   << <<>>, ScriptPlain >>}

VARIABLES rRows, rFlat, rRaw, rResults, rDone

rowsVars == <<rRows, rFlat, rRaw, rResults, rDone>>

RowsIdle ==
  /\ rRows = <<>> /\ rFlat = <<>> /\ rRaw = <<>> /\ rResults = <<>>
  /\ rDone = FALSE

\* one call of evaluateRows
EvaluateRows(rows, flat, raw) ==
  /\ ~rDone
  /\ rRows' = rows /\ rFlat' = flat /\ rRaw' = raw
  /\ rResults' = evaluateRows(rows, flat, raw)
  /\ rDone' = TRUE

(***************************************************************************)
(* The row loop of scanStage3Rows run twice, on two requests that have one *)
(* row in common, over the same fetched candles.                           *)
(*   xRowsA, xStudiesA, xOutA   the rows, the studies and the result rows  *)
(*                              of the first request                       *)
(*   xRowsB, xStudiesB, xOutB   those of the second                        *)
(*   xDone                      both loops have run                        *)
(***************************************************************************)
\* for (const row of rows) { ... resultRows.push(...) }
RowLoop(rows, candlesBySymbol, studies) ==
  FlattenRange(
    [i \in 1..Len(rows) |-> ProcessRow(rows[i], candlesBySymbol, studies)],
    1, Len(rows))

\* the configs a slot is given
SlotConfigs == {StudiesPlots[1], StudiesFailing[1], NoConfig}

\* slots that are given a config
MaxSlots == 2

PairStudies ==
  {[i \in 1..MaxSlots |-> cfg[i]] : cfg \in [1..MaxSlots -> SlotConfigs]}

\* the row the two requests have in common, and the rows before it
CommonRow == [id |-> 1, symbol |-> "aapl"]

OtherRows == {<<>>, <<[id |-> 2, symbol |-> "MSFT"]>>}

PairCandles ==
  ("AAPL" :> CandlesOf("rising")) @@ ("MSFT" :> CandlesOf("zigzag"))

VARIABLES xRowsA, xStudiesA, xOutA, xRowsB, xStudiesB, xOutB, xDone

pairVars == <<xRowsA, xStudiesA, xOutA, xRowsB, xStudiesB, xOutB, xDone>>

PairIdle ==
  /\ xRowsA = <<>> /\ xStudiesA = <<>> /\ xOutA = <<>>
  /\ xRowsB = <<>> /\ xStudiesB = <<>> /\ xOutB = <<>>
  /\ xDone = FALSE

\* two requests are answered
ScanPair(rowsA, studiesA, rowsB, studiesB) ==
  /\ ~xDone
  /\ xRowsA' = rowsA /\ xStudiesA' = studiesA
  /\ xRowsB' = rowsB /\ xStudiesB' = studiesB
  /\ xOutA' = RowLoop(rowsA, PairCandles, studiesA) \o <<>>
  /\ xOutB' = RowLoop(rowsB, PairCandles, studiesB) \o <<>>
  /\ xDone' = TRUE

(***************************************************************************)
(* The token lock and the authorized request (src/utils/schwab.js).  One   *)
(* makeAuthorizedRequest call runs among NumCallers concurrent callers of  *)
(* getAccessToken; the awaits are the step boundaries.  mPerf[p] is the    *)
(* performRefresh that process p started, refreshPromise names the process *)
(* whose promise is stored in the lock (0 is null), mJoined[p] the         *)
(* promise process p awaits and mGot[p] the settlement delivered to it.    *)
(***************************************************************************)
NumCallers == 2

maxRetries == 2

Requester == NumCallers + 1

Callers == 1..NumCallers

Procs == {Requester} \cup Callers

NoPromise == 0

RefreshOutcomes == {"fulfilled", "rejected401", "rejectedOther"}

RequestOutcomes == {"response", "error401", "errorOther"}

NoRefresh == "none"

PendingRefresh == "pending"

VARIABLES refreshPromise, mPc, retries, mAttempts, mForced, mErr, mJoined,
          mGot, mPerf

authVars == <<refreshPromise, mPc, retries, mAttempts, mForced, mErr,
              mJoined, mGot, mPerf>>

AuthIdle ==
  /\ refreshPromise = NoPromise
  /\ mPc = [p \in Procs |-> "idle"]
  /\ retries = 0
  /\ mAttempts = 0
  /\ mForced = 0
  /\ mErr = "none"
  /\ mJoined = [p \in Procs |-> NoPromise]
  /\ mGot = [p \in Procs |-> NoRefresh]
  /\ mPerf = [p \in Procs |-> NoRefresh]

Awaiting(p) == mPc[p] \in {"awaitRefresh", "forceRefresh"}

InFlight == {o \in Procs : mPerf[o] = PendingRefresh}

\* the test `if (refreshPromise)` that guards the lock
LockHeldNever(promise) == FALSE
LockHeld(promise) == promise # NoPromise

\* refreshToken up to its await: a held lock hands out the stored promise,
\* a free one stores the promise of a new performRefresh
refreshToken(p) ==
  IF LockHeld(refreshPromise)
  THEN /\ mJoined' = [mJoined EXCEPT ![p] = refreshPromise]
       /\ mGot' = [mGot EXCEPT ![p] = mPerf[refreshPromise]]
       /\ UNCHANGED <<refreshPromise, mPerf>>
  ELSE /\ refreshPromise' = p
       /\ mPerf' = [mPerf EXCEPT ![p] = PendingRefresh]
       /\ mJoined' = [mJoined EXCEPT ![p] = p]
       /\ mGot' = [mGot EXCEPT ![p] = NoRefresh]

\* the retry test of the catch block
CanRetryAnyError(err, n) == n < maxRetries
CanRetry(err, n) == err = "error401" /\ n < maxRetries

ErrorOf(outcome) ==
  IF outcome = "rejected401" THEN "error401" ELSE "errorOther"

\* makeAuthorizedRequest is called: retries = 0, the loop is entered and
\* getAccessToken awaits getToken
MakeAuthorizedRequest ==
  /\ mPc[Requester] = "idle"
  /\ mPc' = [mPc EXCEPT ![Requester] = "getAccess"]
  /\ retries' = 0
  /\ UNCHANGED <<refreshPromise, mAttempts, mForced, mErr, mJoined, mGot,
                 mPerf>>

\* another module calls getAccessToken, which awaits getToken
CallGetAccessToken(p) ==
  /\ p \in Callers
  /\ mPc[p] = "idle"
  /\ mPc' = [mPc EXCEPT ![p] = "getAccess"]
  /\ UNCHANGED <<refreshPromise, retries, mAttempts, mForced, mErr, mJoined,
                 mGot, mPerf>>

\* getAccessToken after getToken: a usable token is returned, a missing or
\* expiring one calls refreshToken
GetAccessToken(p, expired) ==
  /\ mPc[p] = "getAccess"
  /\ IF expired
     THEN /\ refreshToken(p)
          /\ mPc' = [mPc EXCEPT ![p] = "awaitRefresh"]
     ELSE /\ mPc' = [mPc EXCEPT ![p] =
                       IF p = Requester THEN "request" ELSE "idle"]
          /\ UNCHANGED <<refreshPromise, mPerf, mJoined, mGot>>
  /\ UNCHANGED <<retries, mAttempts, mForced, mErr>>

\* performRefresh settles: no refresh token, a failed token request or a
\* failed save reject it, a saved token fulfils it
PerformRefresh(o, outcome) ==
  /\ mPerf[o] = PendingRefresh
  /\ mPerf' = [mPerf EXCEPT ![o] = outcome]
  /\ mGot' = [p \in Procs |->
                IF Awaiting(p) /\ mJoined[p] = o THEN outcome ELSE mGot[p]]
  /\ UNCHANGED <<refreshPromise, mPc, retries, mAttempts, mForced, mErr,
                 mJoined>>

\* a process resumes from `await refreshToken()`: the one that started the
\* refresh runs the finally block first.  In getAccessToken a fulfilled
\* refresh yields the token and a rejected one is thrown, into the catch
\* block when the caller is makeAuthorizedRequest; in the catch block a
\* fulfilled refresh is followed by retries++ and a rejected one is thrown
RefreshResume(p) ==
  /\ Awaiting(p)
  /\ mGot[p] # NoRefresh
  /\ IF mJoined[p] = p
     THEN /\ refreshPromise' = NoPromise
          /\ mPerf' = [mPerf EXCEPT ![p] = NoRefresh]
     ELSE UNCHANGED <<refreshPromise, mPerf>>
  /\ mJoined' = [mJoined EXCEPT ![p] = NoPromise]
  /\ mGot' = [mGot EXCEPT ![p] = NoRefresh]
  /\ IF p # Requester
     THEN /\ mPc' = [mPc EXCEPT ![p] = "idle"]
          /\ UNCHANGED <<retries, mErr>>
     ELSE IF mGot[p] = "fulfilled"
     THEN /\ mPc' = [mPc EXCEPT ![p] =
                       IF mPc[p] = "awaitRefresh"
                       THEN "request" ELSE "getAccess"]
          /\ retries' = IF mPc[p] = "awaitRefresh"
                        THEN retries ELSE retries + 1
          /\ UNCHANGED mErr
     ELSE /\ mPc' = [mPc EXCEPT ![p] =
                       IF mPc[p] = "awaitRefresh" THEN "catch" ELSE "threw"]
          /\ mErr' = ErrorOf(mGot[p])
          /\ UNCHANGED retries
  /\ UNCHANGED <<mAttempts, mForced>>

\* the axios request settles
AuthorizedRequest(outcome) ==
  /\ mPc[Requester] = "request"
  /\ mAttempts' = mAttempts + 1
  /\ mPc' = [mPc EXCEPT ![Requester] =
               IF outcome = "response" THEN "returned" ELSE "catch"]
  /\ mErr' = IF outcome = "response" THEN mErr ELSE outcome
  /\ UNCHANGED <<refreshPromise, retries, mForced, mJoined, mGot, mPerf>>

\* the catch block: a 401 with retries left forces a refresh and the
\* caught error is dropped, anything else is thrown
CatchError ==
  /\ mPc[Requester] = "catch"
  /\ IF CanRetry(mErr, retries)
     THEN /\ refreshToken(Requester)
          /\ mForced' = mForced + 1
          /\ mErr' = "none"
          /\ mPc' = [mPc EXCEPT ![Requester] = "forceRefresh"]
     ELSE /\ mPc' = [mPc EXCEPT ![Requester] = "threw"]
          /\ UNCHANGED <<refreshPromise, mPerf, mJoined, mGot, mForced,
                         mErr>>
  /\ UNCHANGED <<retries, mAttempts>>

ProcStep(p) ==
  \/ \E expired \in BOOLEAN : GetAccessToken(p, expired)
  \/ RefreshResume(p)
  \/ p = Requester /\ \E outcome \in RequestOutcomes :
                        AuthorizedRequest(outcome)
  \/ p = Requester /\ CatchError

RefreshSettles == \E o \in Procs : \E outcome \in RefreshOutcomes :
                    PerformRefresh(o, outcome)

pureVars == <<seriesVars, formulaVars, parseVars, rowsVars, pairVars,
             authVars>>


(***************************************************************************)
(* Specifications: each follows one component and leaves the others idle.  *)
(***************************************************************************)
vars == <<eScript, eUserInputs, eCandles, eDefs, eFormulas, ePc, ePass, eK,
          eSt, eJ, eLabels, eRuns, sPc, sRows, sStudies, sSymbols, sSettled,
          sResponse, cValue, cThresholds, cLabel, currentConfig, lReqs,
          aFunc, aInput, aLength, aOut, oName, oOffset, oCandles, oOut,
          fScript, fUserInputs, fCandles, fParsed, fResult, fDone,
          pPieces, pUserInputs, pParsed, pDone,
          rRows, rFlat, rRaw, rResults, rDone,
          xRowsA, xStudiesA, xOutA, xRowsB, xStudiesB, xOutB, xDone,
          refreshPromise, mPc, retries, mAttempts, mForced, mErr,
          mJoined, mGot, mPerf>>

Init ==
  /\ EngineIdle /\ ScanIdle /\ ClassifyIdle /\ LegacyIdle
  /\ SeriesIdle /\ FormulaIdle /\ ParseIdle /\ RowsIdle /\ PairIdle
  /\ AuthIdle

\* the formula engine
Next ==
  \/ \E script \in EngineScripts :
       \E userInputs \in InputOverrides(script) :
         \E candles \in CandleInputs :
           /\ EngineStart(script, userInputs, candles)
           /\ UNCHANGED <<scanVars, classifyVars, legacyVars,
                    pureVars>>
  \/ EngineDefStep /\ UNCHANGED <<scanVars, classifyVars, legacyVars,
                    pureVars>>
  \/ EnginePassEnd /\ UNCHANGED <<scanVars, classifyVars, legacyVars,
                    pureVars>>
  \/ EngineFormulaStep /\ UNCHANGED <<scanVars, classifyVars, legacyVars,
                    pureVars>>
  \/ EngineFinish /\ UNCHANGED <<scanVars, classifyVars, legacyVars,
                    pureVars>>

Spec == Init /\ [][Next]_vars

\* the engine with its loops scheduled: the calls are synchronous, so a
\* started run keeps taking steps.
\* the position of a run in its loops
enginePos == <<ePc, ePass, eK, eJ>>

\* a started run moves on: EngineDefStep and EngineFormulaStep advance their
\* loop index, EnginePassEnd starts the next pass or leaves the pass loop,
\* EngineFinish returns; no other step is taken while a run is in its loops
EngineAdvance ==
  /\ ePc \in {"defs", "formulas"}
  /\ ePc' \in {"defs", "formulas", "done"}
  /\ ePass' \in 0..MaxPasses
  /\ eK' \in 1..(Len(eDefs) + 1)
  /\ eJ' \in 1..(Len(eFormulas) + 1)

FairSpec == Spec /\ WF_enginePos(EngineAdvance)

\* the scan
NextScan ==
  \/ \E rows \in RowInputs : \E studies \in StudyInputs :
       /\ ScanReceive(rows, studies)
       /\ UNCHANGED <<engineVars, classifyVars, legacyVars,
                    pureVars>>
  \/ \E k \in 1..Len(sSettled) : \E outcome \in FetchOutcomes :
       /\ FetchSettle(k, outcome)
       /\ UNCHANGED <<engineVars, classifyVars, legacyVars,
                    pureVars>>
  \/ ScanRespond /\ UNCHANGED <<engineVars, classifyVars, legacyVars,
                    pureVars>>
SpecScan == Init /\ [][NextScan]_vars

\* the classification of a label
NextClassify ==
  \E v \in BoundInputs : \E thresholds \in ThresholdInputs :
    /\ Classify(v, thresholds)
    /\ UNCHANGED <<engineVars, scanVars, legacyVars,
                    pureVars>>
SpecClassify == Init /\ [][NextClassify]_vars

\* the controller with the module-level configuration
NextLegacy ==
  \/ \E update \in UpdateInputs :
       SaveConfig(update) /\ UNCHANGED <<engineVars, scanVars, classifyVars,
                    pureVars>>
  \/ \E r \in 1..NumRequests : \E rows \in LegacyRowInputs :
       /\ LegacyScanReceive(r, rows)
       /\ UNCHANGED <<engineVars, scanVars, classifyVars,
                    pureVars>>
  \/ \E r \in 1..NumRequests : \E outcome \in LegacyOutcomes :
       /\ LegacyScanRespond(r, <<outcome>>)
       /\ UNCHANGED <<engineVars, scanVars, classifyVars,
                    pureVars>>
SpecLegacy == Init /\ [][NextLegacy]_vars

machineVars == <<engineVars, scanVars, classifyVars, legacyVars>>

\* the window functions and the offset accessor
NextSeries ==
  \/ \E funcName \in AggMarkers : \E inputSeries \in SeriesInputs :
       \E length \in LengthInputs :
         /\ Aggregate(funcName, inputSeries, length)
         /\ UNCHANGED <<machineVars, formulaVars, parseVars, rowsVars, pairVars,
                      authVars>>
  \/ \E name \in OffsetNames : \E offset \in OffsetInputs :
       \E candles \in CandleInputs :
         /\ OffsetAccess(name, offset, candles)
         /\ UNCHANGED <<machineVars, formulaVars, parseVars, rowsVars, pairVars,
                      authVars>>
SpecSeries == Init /\ [][NextSeries]_vars

\* the evaluation of a study
NextFormula ==
  \E script \in FormulaScripts : \E userInputs \in InputOverrides(script) :
    \E candles \in FormulaCandles :
      /\ EvaluateStudy(script, userInputs, candles)
      /\ UNCHANGED <<machineVars, seriesVars, parseVars, rowsVars, pairVars,
                      authVars>>
SpecFormula == Init /\ [][NextFormula]_vars

\* the script parser
NextParse ==
  \E pieces \in PieceLists(MaxPieces) : \E userInputs \in OverrideInputs :
    /\ Extract(pieces, userInputs)
    /\ UNCHANGED <<machineVars, seriesVars, formulaVars, rowsVars, pairVars,
                      authVars>>
SpecParse == Init /\ [][NextParse]_vars

\* evaluateRows
NextRows ==
  \E rows \in EvalRowLists(MaxEvalRows) : \E flat \in FlatInputs :
    \E raw \in RawInputs :
      /\ EvaluateRows(rows, flat, raw)
      /\ UNCHANGED <<machineVars, seriesVars, formulaVars, parseVars, pairVars,
                      authVars>>
SpecRows == Init /\ [][NextRows]_vars

\* two scans side by side: the second keeps one slot of the first and has
\* another config in every other slot
NextPair ==
  \E studiesA \in PairStudies : \E keep \in 1..MaxSlots :
    \E cfg \in SlotConfigs : \E beforeA \in OtherRows :
      \E beforeB \in OtherRows :
        /\ ScanPair(beforeA \o <<CommonRow>>, studiesA,
                    beforeB \o <<CommonRow>>,
                    [i \in 1..MaxSlots |->
                       IF i = keep THEN studiesA[i] ELSE cfg])
        /\ UNCHANGED <<machineVars, seriesVars, formulaVars, parseVars,
                       rowsVars, authVars>>
SpecPair == Init /\ [][NextPair]_vars

\* the token lock and the authorized request
NextAuth ==
  \/ MakeAuthorizedRequest
       /\ UNCHANGED <<machineVars, seriesVars, formulaVars, parseVars,
                      rowsVars, pairVars>>
  \/ \E p \in Callers :
       /\ CallGetAccessToken(p)
       /\ UNCHANGED <<machineVars, seriesVars, formulaVars, parseVars,
                      rowsVars, pairVars>>
  \/ \E p \in Procs : \E expired \in BOOLEAN :
       /\ GetAccessToken(p, expired)
       /\ UNCHANGED <<machineVars, seriesVars, formulaVars, parseVars,
                      rowsVars, pairVars>>
  \/ \E o \in Procs : \E outcome \in RefreshOutcomes :
       /\ PerformRefresh(o, outcome)
       /\ UNCHANGED <<machineVars, seriesVars, formulaVars, parseVars,
                      rowsVars, pairVars>>
  \/ \E p \in Procs :
       /\ RefreshResume(p)
       /\ UNCHANGED <<machineVars, seriesVars, formulaVars, parseVars,
                      rowsVars, pairVars>>
  \/ \E outcome \in RequestOutcomes :
       /\ AuthorizedRequest(outcome)
       /\ UNCHANGED <<machineVars, seriesVars, formulaVars, parseVars,
                      rowsVars, pairVars>>
  \/ CatchError
       /\ UNCHANGED <<machineVars, seriesVars, formulaVars, parseVars,
                      rowsVars, pairVars>>
SpecAuth == Init /\ [][NextAuth]_vars

\* every pending await settles (a database read or an HTTP request ends
\* with an answer or an error) and a settled promise resumes its awaiters
FairSpecAuth ==
  /\ SpecAuth
  /\ \A p \in Procs : WF_authVars(ProcStep(p))
  /\ WF_authVars(RefreshSettles)

(***************************************************************************)
(* The engine on def maps that are dependency chains: every def but the    *)
(* last names the next one, the last is a base series.                     *)
(***************************************************************************)
\* defs in the longest chain
MaxChain == 21

ChainName(i) == "d" \o ToString(i)

\* def d1 = d2 + 1; ... def dn = close; plot p = d1;  every def is declared
\* before the def it names
ReverseChain(n) ==
  FlattenRange(
    [i \in 1..n |->
       IF i < n
       THEN <<"def", ChainName(i), "=", ChainName(i + 1), "+", "1", ";">>
       ELSE <<"def", ChainName(i), "=", "close", ";">>],
    1, n)
  \o <<"plot", "p", "=", ChainName(1), ";">>

\* def dn = close; ... def d1 = d2 + 1; plot p = d1;  every def is declared
\* after the def it names
ForwardChain(n) ==
  FlattenRange(
    [i \in 1..n |->
       IF i = 1
       THEN <<"def", ChainName(n), "=", "close", ";">>
       ELSE <<"def", ChainName(n + 1 - i), "=", ChainName(n + 2 - i), "+",
              "1", ";">>],
    1, n)
  \o <<"plot", "p", "=", ChainName(1), ";">>

ChainScripts ==
  {ReverseChain(n) : n \in {2, MaxChain - 1, MaxChain}}
    \cup {ForwardChain(MaxChain)}

ChainCandles == {SubSeq(CandlesOf("rising"), 1, 2)}

NextChain ==
  \/ \E script \in ChainScripts : \E candles \in ChainCandles :
       /\ EngineStart(script, <<>>, candles)
       /\ UNCHANGED <<scanVars, classifyVars, legacyVars, pureVars>>
  \/ EngineDefStep /\ UNCHANGED <<scanVars, classifyVars, legacyVars,
                                  pureVars>>
  \/ EnginePassEnd /\ UNCHANGED <<scanVars, classifyVars, legacyVars,
                                  pureVars>>
  \/ EngineFormulaStep /\ UNCHANGED <<scanVars, classifyVars, legacyVars,
                                      pureVars>>
  \/ EngineFinish /\ UNCHANGED <<scanVars, classifyVars, legacyVars,
                                 pureVars>>
SpecChain == Init /\ [][NextChain]_vars

(***************************************************************************)
(* Properties.                                                             *)
(***************************************************************************)
\* C1: the status of a label follows the precedence: value missing ->
\* unknown; otherwise both bounds absent -> noFilter; otherwise min present
\* and value < min -> below; otherwise max present and value > max -> above;
\* otherwise within.
C1_StatusPrecedence ==
  LET thr == ThresholdAt(cThresholds, 1)
      minPresent == thr.min \notin {Null, Undefined}
      maxPresent == thr.max \notin {Null, Undefined}
      expected ==
        IF cValue \in {Null, Undefined} THEN "unknown"
        ELSE IF ~minPresent /\ ~maxPresent THEN "noFilter"
        ELSE IF minPresent /\ LtV(cValue, thr.min) THEN "below"
        ELSE IF maxPresent /\ LtV(thr.max, cValue) THEN "above"
        ELSE "within"
  IN  cLabel.status # "pending" =>
        /\ cLabel.status = expected
        /\ cLabel.value = cValue /\ cLabel.min = thr.min /\ cLabel.max = thr.max

\* a value below min and above max at once has been classified
C1_Witness ==
  /\ cLabel.status = "below"
  /\ cThresholds # <<>>
  /\ cLabel.max \notin {Null, Undefined}
  /\ LtV(cLabel.max, cValue)

\* C2: every study slot of every evaluated row of the response has exactly
\* 5 label objects, whatever the number of plots of its script.
C2_FiveLabelsPerSlot ==
  sPc = "responded" =>
    \A i \in 1..Len(sResponse.rows) :
      sResponse.rows[i].studyLabels # <<>> =>
        /\ Len(sResponse.rows[i].studyLabels) = 5
        /\ \A slot \in 1..5 : Len(sResponse.rows[i].studyLabels[slot]) = 5

\* a row has been evaluated under studies with three plots, six plots, no
\* plot, an empty formula and an absent configuration
C2_Witness ==
  /\ sPc = "responded"
  /\ sStudies = StudiesPlots
  /\ \E i \in 1..Len(sResponse.rows) :
       /\ sResponse.rows[i].studyLabels # <<>>
       /\ sResponse.rows[i].studyLabels[2][5].status = "noFilter"
       /\ sResponse.rows[i].studyLabels[1][4].status = "empty"

\* C3: a finished run has one label per formula, in order, and the label of
\* formula j is the label the formula gets when it is evaluated alone with
\* the same defs and candles.
C3_LabelPerFormula ==
  ePc = "done" =>
    /\ Len(eLabels) = Len(eFormulas)
    /\ \A j \in 1..Len(eFormulas) :
         \A alone \in {evaluateFormulasOnCandles(eCandles, <<eFormulas[j]>>,
                                                 eDefs)} :
           eLabels[j] = alone.labels[1]

\* a run has finished with a failed formula next to an evaluated one
C3_Witness ==
  /\ ePc = "done" /\ eCandles # <<>>
  /\ \E j, k \in 1..Len(eLabels) : eLabels[j] # Null /\ eLabels[k] = Null

\* C4: in a success response, every input row of a symbol whose fetch gave
\* no candles appears with study1..study25 all null, and every input row of
\* a symbol whose fetch gave candles appears with the labels evaluated on
\* those candles.
C4_PartialFailure ==
  (sPc = "responded" /\ sResponse.success) =>
    \A i \in 1..Len(sRows) :
      GroupKey(sRows[i]) # "" =>
        \E k \in 1..Len(sSymbols) :
          /\ sSymbols[k] = GroupKey(sRows[i])
          /\ \E n \in 1..Len(sResponse.rows) :
               /\ sResponse.rows[n].id = i
               /\ sResponse.rows[n].flat =
                    IF /\ sSettled[k].status = "fulfilled"
                       /\ sSettled[k].value.hasCandles
                       /\ sSettled[k].value.candles # <<>>
                    THEN FlattenLabels(
                           [slot \in 1..NumStudies |->
                              StudySlot(IF slot \in DOMAIN sStudies
                                        THEN sStudies[slot] ELSE NoConfig,
                                        sSettled[k].value.candles)] \o <<>>)
                    ELSE EmptyLabels

C6_PureEvaluation ==
  ePc = "done" =>
    \A parsed \in {extractPlotExpressions(eScript, eUserInputs)} :
      \A fresh \in {evaluateFormulasOnCandles(eCandles,
                       PlotFormulas(parsed.plots), parsed.defs)} :
        /\ eFormulas = PlotFormulas(parsed.plots)
        /\ eDefs = parsed.defs
        /\ eLabels = fresh.labels
        /\ eSt.log = fresh.log
        /\ eCandles # <<>> =>
             eSt.defSeries = buildDefSeries(eCandles, eDefs).defSeries

\* a second run is about to evaluate a formula for which the first run
\* left a series in its cache that differs from the series of this run
C6_Witness ==
  /\ eRuns >= 1 /\ ePc = "formulas" /\ eJ = 1 /\ eFormulas # <<>>
  /\ eFormulas[1] \in DOMAIN eSt.cache
  /\ \E fresh \in {evaluateFormulaRecursive(eFormulas[1], eCandles, eDefs,
                                             eSt.defSeries, EmptyCache, 1)} :
       eSt.cache[eFormulas[1]] # fresh.vals

\* C7: two answered scans with the same rows and the same fetched candles
\* carry the same labels and thresholds, whatever configuration updates and
\* other requests were interleaved with them.
C7_NoSharedConfig ==
  \A r1, r2 \in 1..NumRequests :
    (/\ lReqs[r1].pc = "responded" /\ lReqs[r2].pc = "responded"
     /\ lReqs[r1].rows = lReqs[r2].rows
     /\ lReqs[r1].settled = lReqs[r2].settled)
    => lReqs[r1].response = lReqs[r2].response

C9_SelfReference ==
  (ePc = "done" /\ eCandles # <<>>) =>
    \A k \in 1..Len(eDefs) :
      HasWord(eDefs[k][2], eDefs[k][1]) =>
        /\ eDefs[k][1] \in DOMAIN eSt.defSeries
        /\ eSt.defSeries[eDefs[k][1]] = ZeroSeries(eCandles)
        /\ Cardinality({e \in 1..Len(eSt.log) :
                          eDefs[k][1] \in eSt.log[e].about}) = 1

\* C10: the label of Highest(SimpleMovingAvg(close, 3), 5) is the maximum
\* over the trailing 5 bars of the 3-bar moving average of close.
C10_NestedWindows ==
  (ePc = "done" /\ eCandles # <<>>) =>
    \A j \in 1..Len(eFormulas) :
      eFormulas[j] = <<"Highest", "(", "SimpleMovingAvg", "(", "close", ",",
                       "3", ")", ",", "5", ")">> =>
        eLabels[j] =
          applyAggregation("_highest_",
            applyAggregation("_sma_", buildSeries(eCandles)["close"], Num(3),
                             eCandles),
            Num(5), eCandles)[Len(eCandles)]

\* C11: for a window length L >= 1, the moving average at position i is the
\* mean of the input values at the positions max(first, i - L + 1)..i, the
\* highest and the lowest are the greatest and the least of those values;
\* for the values 10, 12, 14, 16, 18 the moving average of length 3 ends
\* with 16.
C11_WindowValues ==
  (aFunc # "" /\ LtV(Zero, aLength)) =>
    /\ Len(aOut) = Len(aInput)
    /\ \A i \in 1..Len(aInput) :
         LET lo == IF i - aLength[1] + 1 < 1 THEN 1 ELSE i - aLength[1] + 1
             n == i - lo + 1
             S[m \in 0..n] ==
               IF m = 0 THEN Zero ELSE AddV(S[m - 1], aInput[lo + m - 1])
         IN  CASE aFunc = "_sma_" -> aOut[i] = DivV(S[n], Num(n))
               [] aFunc = "_highest_" ->
                    /\ \E j \in lo..i : aOut[i] = aInput[j]
                    /\ \A j \in lo..i : ~LtV(aOut[i], aInput[j])
               [] aFunc = "_lowest_" ->
                    /\ \E j \in lo..i : aOut[i] = aInput[j]
                    /\ \A j \in lo..i : ~LtV(aInput[j], aOut[i])
    /\ (/\ aFunc = "_sma_" /\ aLength = Num(3)
        /\ aInput = ExampleCloses)
       => aOut[5] = Num(16)

\* the moving average of length 3 of 10, 12, 14, 16, 18 has been computed:
\* its first two values are means of one and of two values
C11_Witness ==
  /\ aFunc = "_sma_" /\ aLength = Num(3)
  /\ aInput = ExampleCloses
  /\ aOut = <<Num(10), Num(11), Num(12), Num(14), Num(16)>>

\* C12: the series NAME[k] holds at position i the value of the base series
\* k positions earlier, the value at i itself for k = 0, and 0 where that
\* position lies before the first candle; for the closes 10, 12, 14, 16, 18
\* close[1] ends with 16.
C12_OffsetAccessor ==
  oName # "" =>
    /\ Len(oOut) = Len(oCandles)
    /\ \A i \in 1..Len(oCandles) :
         oOut[i] =
           IF i - DigitVal(oOffset) < 1 THEN Zero
           ELSE IF ToLower(oName) \in CandleFields
           THEN Num(oCandles[i - DigitVal(oOffset)][ToLower(oName)])
           ELSE Zero
    /\ (oName = "close" /\ oOffset = "1" /\ oCandles = CandlesOf("rising"))
       => oOut[NumCandles] = Num(CloseAt("rising", NumCandles - 1))

\* close[1] has been evaluated over the rising closes: 0 at the first
\* candle, the close of the candle before at the last
C12_Witness ==
  /\ oName = "close" /\ oOffset = "1" /\ oCandles = CandlesOf("rising")
  /\ oOut[1] = Zero
  /\ oOut[NumCandles] = Num(CloseAt("rising", NumCandles - 1))

\* C13: the moving average of length 1 of a series is that series.
C13_LengthOne ==
  (aFunc = "_sma_" /\ aLength = Num(1)) => aOut = aInput

\* the moving average of length 1 of a series of changing values has been
\* computed
C13_Witness ==
  /\ aFunc = "_sma_" /\ aLength = Num(1)
  /\ Len(aInput) >= 3
  /\ aInput[1] # aInput[2] /\ aInput[2] # aInput[3]


\* the identifiers of the study scripts that are neither a base series, a
\* def nor a function of the scope
UnknownIdentifiers == {"foo", "bar"}

HasUnknownIdentifier(formula) ==
  \E name \in UnknownIdentifiers : HasWord(formula, name)

RECURSIVE UnknownAsZero(_, _)
\* the formula with every unknown identifier written as the constant 0
UnknownAsZero(formula, names) ==
  IF names = {} THEN formula
  ELSE LET name == CHOOSE n \in names : TRUE
       IN  UnknownAsZero(ReplaceWord(formula, name, <<"0">>),
                         names \ {name})

\* the label of one formula evaluated on its own with the defs of the study
LabelOf(formula, candles, defs) ==
  evaluateFormulasOnCandles(candles, <<formula>>, defs).labels[1]

\* C14: an identifier that is neither a base series, a known def nor a
\* whitelisted function evaluates as the constant 0 and never as an error:
\* the label of a plot with such an identifier is the label of the same
\* plot with the identifier written as 0, so close + foo gives what close
\* gives.
C14_UnknownIdentifierIsZero ==
  (fDone /\ fCandles # <<>>) =>
    \A j \in 1..Len(fParsed.plots) :
      HasUnknownIdentifier(fParsed.plots[j][2]) =>
        fResult.labels[j]
          = LabelOf(UnknownAsZero(fParsed.plots[j][2], UnknownIdentifiers),
                    fCandles, fParsed.defs)

\* the text of a formula is not an expression: it ends with a binary
\* operator or its parentheses do not balance
EndsWithOperator(formula) ==
  formula # <<>> /\ formula[Len(formula)] \in AddOps \cup MulOps \cup RelOps

Count(formula, token) ==
  Cardinality({i \in 1..Len(formula) : formula[i] = token})

Unbalanced(formula) == Count(formula, "(") # Count(formula, ")")

InvalidSyntax(formula) == EndsWithOperator(formula) \/ Unbalanced(formula)

\* C15: a plot formula whose normalized text is not valid expression
\* syntax has the label null, not a number.
C15_InvalidSyntaxIsNull ==
  (fDone /\ fCandles # <<>>) =>
    \A j \in 1..Len(fParsed.plots) :
      InvalidSyntax(normalizeFormula(fParsed.plots[j][2], fParsed.defs)) =>
        fResult.labels[j] = Null

\* the value of an expression without aggregations at candle i, as the
\* expression evaluator returns it, before any coercion
RawValue(expr, candles, i) ==
  MathEval(expr, createBasicContext(candles, i, <<>>))

\* the formula is free of defs and aggregations: its normalized text is
\* handed to the expression evaluator as it is
IsSimple(formula) ==
  \A i \in 1..Len(formula) :
    formula[i] \notin AggMarkers /\ AliasOf(formula[i]) \notin AggMarkers

\* C16: a plot formula whose value at the last candle is not finite, or
\* whose evaluation throws, has the label null: the value is coerced at
\* the extraction of the label and not replaced inside the series.
C16_NonFiniteIsNull ==
  (fDone /\ fCandles # <<>> /\ fParsed.defs = <<>>) =>
    \A j \in 1..Len(fParsed.plots) :
      LET text == normalizeFormula(fParsed.plots[j][2], fParsed.defs)
          raw == RawValue(text, fCandles, Len(fCandles))
      IN  (IsSimple(text) /\ ~InvalidSyntax(text)
             /\ ~HasUnknownIdentifier(text)
             /\ (~raw.ok \/ ~IsFiniteV(raw.v))) =>
            fResult.labels[j] = Null


\* C17: for an empty or missing candle list evaluateFormulasOnCandles
\* materializes nothing, no def series and no formula, and returns one null
\* per formula, in formula order.
C17_NoCandlesAllNull ==
  (fDone /\ fCandles = <<>>) =>
    /\ Len(fResult.labels) = Len(fParsed.plots)
    /\ \A j \in 1..Len(fParsed.plots) : fResult.labels[j] = Null
    /\ fResult.log = Tagged(<<"noCandlesWarn">>, {})

\* a study with a def and several plots has been evaluated without candles
C17_Witness ==
  /\ fDone /\ fCandles = <<>>
  /\ fParsed.defs # <<>> /\ Len(fParsed.plots) >= 2
  /\ fResult.labels = [j \in 1..Len(fParsed.plots) |-> Null]

\* the expression with every token that is the name of an input written as
\* the value of that input; every other token stays
WithInputValues(expr, inputs) ==
  FlattenRange(
    [i \in 1..Len(expr) |->
       IF \E k \in 1..Len(inputs) : inputs[k][1] = expr[i]
       THEN inputs[CHOOSE k \in 1..Len(inputs) : inputs[k][1] = expr[i]][2]
       ELSE <<expr[i]>>],
    1, Len(expr))

\* the declarations of one keyword as the script text has them
RawDeclarations(pieces, keyword) ==
  Declarations(BooleanOperators(ScriptOf(pieces)), keyword)

\* C18: the effective value of every declared input is the caller's
\* override whenever one is supplied for the name, whatever its value, and
\* the declared default otherwise; every whole-word occurrence of the name
\* in the def and plot expressions is replaced by that value, and a name
\* that only contains the input name stays as it is.
C18_EffectiveInputs ==
  pDone =>
    /\ \A k \in 1..Len(pParsed.inputs) :
         pParsed.inputs[k][2]
           = IF pParsed.inputs[k][1] \in DOMAIN pUserInputs
             THEN pUserInputs[pParsed.inputs[k][1]]
             ELSE <<"3">>
    /\ (\E i \in 1..Len(pPieces) : pPieces[i] = "input")
         <=> (Len(pParsed.inputs) = 1 /\ pParsed.inputs[1][1] = "n")
    /\ \E rawPlots \in {RawDeclarations(pPieces, "plot")} :
         /\ Len(pParsed.plots) = Len(rawPlots)
         /\ \A j \in 1..Len(rawPlots) :
              pParsed.plots[j]
                = <<rawPlots[j][1],
                    WithInputValues(rawPlots[j][2], pParsed.inputs)>>
    /\ \E rawDefs \in {AsMap(RawDeclarations(pPieces, "def"))} :
         /\ Len(pParsed.defs) = Len(rawDefs)
         /\ \A j \in 1..Len(rawDefs) :
              pParsed.defs[j]
                = <<rawDefs[j][1],
                    WithInputValues(rawDefs[j][2], pParsed.inputs)>>

\* the input is overridden with the number 0 and the def and the plot that
\* use it are extracted: the def keeps nn and has 0 for n
C18_Witness ==
  /\ pDone /\ pPieces = <<"input", "def", "plot">>
  /\ pUserInputs = [n |-> <<"0">>]
  /\ pParsed.inputs = << <<"n", <<"0">> >> >>
  /\ pParsed.defs = << <<"a", <<"0", "+", "nn">> >> >>
  /\ pParsed.plots = << <<"p", <<"a", "*", "0">> >> >>

\* the formula with every reference to an earlier plot written as that
\* plot's expression in parentheses
RECURSIVE WithEarlierPlots(_, _, _)
WithEarlierPlots(formula, plots, j) ==
  IF j = 0 THEN formula
  ELSE WithEarlierPlots(
         ReplaceWord(formula, plots[j][1],
                     <<"(">> \o plots[j][2] \o <<")">>),
         plots, j - 1)

\* C19: every plot is also registered as a def under the plot's name, and
\* a later plot that references an earlier plot evaluates to that plot's
\* output.
C19_PlotsRegisteredAsDefs ==
  fDone =>
    /\ \A j \in 1..Len(fParsed.plots) :
         \E k \in 1..Len(fParsed.defs) : fParsed.defs[k] = fParsed.plots[j]
    /\ fCandles # <<>> =>
         \A j \in 1..Len(fParsed.plots) :
           fResult.labels[j]
             = LabelOf(WithEarlierPlots(fParsed.plots[j][2], fParsed.plots,
                                        j - 1),
                       fCandles, fParsed.defs)

IsWellFormed(piece) == piece \in WellFormedPieces

\* C20: a malformed declaration (no name, no "=", an empty expression, no
\* terminating ";") is skipped: it adds no entry to inputs, defs or plots,
\* and the entries of the well-formed declarations around it are the ones
\* extracted from the script without the malformed text.
C20_MalformedSkipped ==
  pDone =>
    \E clean \in {extractPlotExpressions(
                    ScriptOf(SelectSeq(pPieces, IsWellFormed)),
                    pUserInputs)} :
      /\ pParsed.plots = clean.plots \o <<>>
      /\ pParsed.defs = clean.defs \o <<>>
      /\ pParsed.inputs = clean.inputs \o <<>>


\* def a references def b by whole-word name
DefEdge(defs, a, b) == HasWord(defs[a][2], defs[b][1])

\* def b is reached from def a along one or more references
DefReaches(defs, a, b) ==
  \E m \in 1..Len(defs) :
    \E path \in [1..(m + 1) -> 1..Len(defs)] :
      /\ path[1] = a /\ path[m + 1] = b
      /\ \A i \in 1..m : DefEdge(defs, path[i], path[i + 1])

\* def k is on a reference cycle of two or more defs
OnDefCycle(defs, k) ==
  \E j \in 1..Len(defs) :
    j # k /\ DefReaches(defs, k, j) /\ DefReaches(defs, j, k)

\* C21: when two or more defs form a reference cycle, every def on the
\* cycle ends bound to a series of zeros of the length of the candle list
\* and the cycle is logged; a def that is neither on a cycle nor reaches one
\* is bound to a series of that length.
C21_CycleZeroFilled ==
  (ePc = "done" /\ eCandles # <<>>) =>
    \A k \in 1..Len(eDefs) :
      /\ OnDefCycle(eDefs, k) =>
           /\ eDefs[k][1] \in DOMAIN eSt.defSeries
           /\ eSt.defSeries[eDefs[k][1]] = ZeroSeries(eCandles)
           /\ \E e \in 1..Len(eSt.log) : eDefs[k][1] \in eSt.log[e].about
      /\ (~DefReaches(eDefs, k, k)
            /\ ~\E j \in 1..Len(eDefs) :
                  DefReaches(eDefs, k, j) /\ DefReaches(eDefs, j, j)) =>
           /\ eDefs[k][1] \in DOMAIN eSt.defSeries
           /\ Len(eSt.defSeries[eDefs[k][1]]) = Len(eCandles)

\* C22: a def is marked evaluated only when every other def that its
\* expression names is already evaluated and has a series as long as the
\* candle list stored, and a def is evaluated at most once in a pass: only
\* by the iteration of the def loop that stands at it.
C22_DependenciesFirst ==
  [][\A k \in 1..Len(eDefs) :
       (eDefs[k][1] \notin eSt.evaluated /\ eDefs[k][1] \in eSt'.evaluated) =>
         /\ \A j \in 1..Len(eDefs) :
              (j # k /\ DefEdge(eDefs, k, j)) =>
                /\ eDefs[j][1] \in eSt.evaluated
                /\ eDefs[j][1] \in DOMAIN eSt.defSeries
                /\ Len(eSt.defSeries[eDefs[j][1]]) = Len(eCandles)
         /\ ePc = "defs" /\ eK = k /\ eK' = k + 1 /\ ePass' = ePass
         /\ Len(eSt'.defSeries[eDefs[k][1]]) = Len(eCandles)]_vars

\* the def declared first names the def declared after it and has been
\* evaluated in the second pass, after that def
C22_Witness ==
  /\ ePc = "defs" /\ ePass = 1
  /\ Len(eDefs) = 2 /\ DefEdge(eDefs, 1, 2) /\ ~DefEdge(eDefs, 2, 1)
  /\ eSt.evaluated = {eDefs[1][1], eDefs[2][1]}


\* the defs that a topological sort of the def map reaches from the defs in
\* done: a def is taken once every other def it names is taken
RECURSIVE Sorted(_, _)
Sorted(defs, done) ==
  LET ready == {k \in 1..Len(defs) :
                  /\ k \notin done
                  /\ \A j \in 1..Len(defs) :
                       (j # k /\ DefEdge(defs, k, j)) => j \in done}
  IN  IF ready = {} THEN done ELSE Sorted(defs, done \cup ready)

\* no def is on a reference cycle
Acyclic(defs) ==
  /\ Sorted(defs, {}) = 1..Len(defs)
  /\ \A k \in 1..Len(defs) : ~DefEdge(defs, k, k)

\* C23: for an acyclic def map, whatever the declaration order and however
\* long the chain, a finished run has every def bound to a series as long
\* as the candle list.
C23_AcyclicMaterialized ==
  (ePc = "done" /\ eCandles # <<>> /\ Acyclic(eDefs)) =>
    \A k \in 1..Len(eDefs) :
      /\ eDefs[k][1] \in DOMAIN eSt.defSeries
      /\ Len(eSt.defSeries[eDefs[k][1]]) = Len(eCandles)


\* the state of evaluateFormulaRecursive after its loop over the call
\* sites of an expression: [workingExpr, temps, cache, log, threw]
AfterCallSites(expr, candles, allDefs, defSeries) ==
  CHOOSE out \in
    {ProcessCalls(SortByStartDesc(findAggregationCalls(normalized)), 1,
       [workingExpr |-> normalized, temps |-> <<>>, cache |-> EmptyCache,
        log |-> <<>>, threw |-> FALSE],
       candles, allDefs, defSeries, 1) :
       normalized \in {normalizeFormula(expr, allDefs)}} : TRUE

\* C24: after the call sites of an expression have been processed
\* rightmost-first, nested sites and sites with the same text included,
\* every site has been replaced by a temp series name of its own and the
\* expression handed to the per-index evaluator has no window-function
\* marker left.
C24_NoMarkerLeft ==
  (ePc = "done" /\ eCandles # <<>>) =>
    \A j \in 1..Len(eFormulas) :
      \E st \in {AfterCallSites(eFormulas[j], eCandles, eDefs,
                                eSt.defSeries)} :
        ~st.threw =>
          /\ \A i \in 1..Len(st.workingExpr) :
               st.workingExpr[i] \notin AggMarkers
          /\ Len(st.temps)
               = Len(findAggregationCalls(
                       normalizeFormula(eFormulas[j], eDefs)))
          /\ \A k \in 1..Len(st.temps) :
               HasWord(st.workingExpr, st.temps[k][1])


\* the series of every def evaluated on its own text
OwnSeries(defs, candles) ==
  [name \in {defs[k][1] : k \in 1..Len(defs)} |->
     evaluateFormulaRecursive(
       defs[CHOOSE k \in 1..Len(defs) : defs[k][1] = name][2],
       candles, <<>>, <<>>, EmptyCache, 1).vals]

\* the last value of a formula in which every def name stands for the
\* value of that def's own series at the index
LabelOverSeries(formula, candles, defSeries) ==
  LastValue(evaluateFormulaRecursive(formula, candles, <<>>, defSeries,
                                     EmptyCache, 1).vals)

\* the defs of the study name only base series
FlatDefs(defs) == \A k, j \in 1..Len(defs) : ~DefEdge(defs, k, j)

\* C25: a plot that references a def by name evaluates as if the name were
\* bound to the value of the def's own series at the index, also when the
\* body of the def has a bracket offset or a window function.
C25_DefReferenceIsSeries ==
  (fDone /\ fCandles # <<>> /\ FlatDefs(fParsed.defs)) =>
    \A j \in 1..Len(fParsed.plots) :
      (\E k \in 1..Len(fParsed.defs) :
         HasWord(fParsed.plots[j][2], fParsed.defs[k][1])) =>
        fResult.labels[j]
          = LabelOverSeries(fParsed.plots[j][2], fCandles,
                            OwnSeries(fParsed.defs, fCandles))


\* C26: evaluateRows returns one result per input row, in input order, and
\* every result has the same fields, symbol, labels and study1..studyK for
\* the K <= 25 formulas of the call, whether the row had candles or not.
C26_FixedShapeResults ==
  rDone =>
    /\ Len(rResults) = Len(rRows)
    /\ \A i \in 1..Len(rRows) :
         /\ rResults[i].symbol = rRows[i].symbol
         /\ Len(rResults[i].labels) = Len(RowFormulas(rFlat, rRaw))
         /\ DOMAIN rResults[i].fields = 1..Len(RowFormulas(rFlat, rRaw))
    /\ Len(RowFormulas(rFlat, rRaw)) <= MaxFormulas


\* C27: a success response has one result row for every input row, in
\* input order, with the input row's own fields and study1..study25; no
\* input row, a row without symbol included, is dropped or duplicated.
C27_OneRowPerInputRow ==
  (sPc = "responded" /\ sResponse.success) =>
    /\ Len(sResponse.rows) = Len(sRows)
    /\ \A i \in 1..Len(sRows) :
         i <= Len(sResponse.rows) =>
           /\ sResponse.rows[i].id = sRows[i].id
           /\ sResponse.rows[i].symbol = sRows[i].symbol
           /\ DOMAIN sResponse.rows[i].flat
                = 1..(LabelsPerStudy * NumStudies)


\* the result row of the common row
ResultOf(out) == out[CHOOSE r \in 1..Len(out) : out[r].id = CommonRow.id]

\* study((i-1)*5+1) .. study(i*5) of a result row
FlatOfSlot(result, i) ==
  [l \in 1..LabelsPerStudy |-> result.flat[(i - 1) * LabelsPerStudy + l]]

\* C28: the labels of study slot i for a row depend on slot i's own
\* formula, inputs and thresholds and on the row's candles only: two scans
\* that agree on slot i and on the row give the row the same labels in slot
\* i, whatever the other slots and the other rows are.
C28_SlotsIndependent ==
  xDone =>
    \A i \in 1..MaxSlots :
      xStudiesA[i] = xStudiesB[i] =>
        /\ ResultOf(xOutA).studyLabels[i] = ResultOf(xOutB).studyLabels[i]
        /\ FlatOfSlot(ResultOf(xOutA), i) = FlatOfSlot(ResultOf(xOutB), i)

\* two scans that agree on the second slot, with different first slots and
\* different rows before the common row, have labelled the common row
C28_Witness ==
  /\ xDone
  /\ xStudiesA[2] = xStudiesB[2] /\ xStudiesA[2] = StudiesPlots[1]
  /\ xStudiesA[1] # xStudiesB[1]
  /\ xRowsA # xRowsB
  /\ ResultOf(xOutA).studyLabels[1] # ResultOf(xOutB).studyLabels[1]
  /\ ResultOf(xOutA).studyLabels[2][1].status = "above"


(***************************************************************************)
(* C29: under any interleaving of refreshToken calls at most one           *)
(* performRefresh is in flight, a caller that arrives while one is in      *)
(* flight joins it and receives its outcome, and the lock is cleared once  *)
(* the refresh settles, fulfilled or rejected, so that a later call starts *)
(* a new refresh.                                                          *)
(***************************************************************************)
Arrives(p) == ~Awaiting(p) /\ Awaiting(p)'

C29_SingleFlightRefresh ==
  /\ [](Cardinality(InFlight) <= 1)
  /\ [](\A p \in Procs :
          (Awaiting(p) /\ mGot[p] = NoRefresh)
            => (mJoined[p] \in InFlight /\ refreshPromise = mJoined[p]))
  /\ [](refreshPromise # NoPromise
          => (Awaiting(refreshPromise)
              /\ mJoined[refreshPromise] = refreshPromise))
  /\ [][\A p \in Procs :
          Arrives(p) =>
            IF InFlight # {}
            THEN mJoined'[p] \in InFlight /\ mPerf' = mPerf
            ELSE (refreshPromise = NoPromise
                    => mPerf'[p] = PendingRefresh)]_vars
  /\ [][\A o \in Procs :
          (mPerf[o] = PendingRefresh /\ mPerf'[o] # PendingRefresh)
            => \A p \in Procs :
                 (Awaiting(p) /\ mJoined[p] = o) => mGot'[p] = mPerf'[o]]_vars
  /\ \A o \in Procs :
       (refreshPromise = o /\ mPerf[o] \in RefreshOutcomes)
         ~> (refreshPromise # o \/ mPerf[o] = PendingRefresh)

\* the forced refresh of the authorized request joins the refresh that a
\* getAccessToken caller has in flight
C29_Witness ==
  \E o \in Callers :
    /\ mPc[Requester] = "forceRefresh" /\ mJoined[Requester] = o
    /\ mPerf[o] = PendingRefresh

(***************************************************************************)
(* C30: a makeAuthorizedRequest call issues at most maxRetries + 1         *)
(* requests and forces at most maxRetries refreshes, retries only after a  *)
(* 401, propagates every other error and a 401 on the last attempt, and    *)
(* always ends with a response or a thrown error.                          *)
(***************************************************************************)
Ended == mPc[Requester] \in {"returned", "threw"}

MustPropagate ==
  /\ mPc[Requester] = "catch"
  /\ (mErr # "error401" \/ mAttempts = maxRetries + 1)

C30_BoundedRetries ==
  /\ [](mAttempts <= maxRetries + 1 /\ mForced <= maxRetries)
  /\ [][/\ mForced' > mForced => mErr = "error401"
        /\ retries' > retries => mPc[Requester] = "forceRefresh"
        /\ (mAttempts' > mAttempts /\ mAttempts > 0)
             => retries >= mAttempts]_vars
  /\ [][MustPropagate => mPc'[Requester] \in {"catch", "threw"}]_vars
  /\ MustPropagate ~> (mPc[Requester] = "threw")
  /\ (mPc[Requester] # "idle") ~> Ended

\* the call ends after its third request, two forced refreshes behind it
C30_Witness ==
  Ended /\ mAttempts = maxRetries + 1 /\ mForced = maxRetries

====
